---------------------------- MODULE Spec2Model ----------------------------
(***************************************************************************)
(* Model of jetstream's Analysis (src/jetstream/analysis.py): the          *)
(* readiness calculator _get_timelimits_if_ready, the precondition check   *)
(* check_runnable, ensure_enrollments and run.                             *)
(*                                                                         *)
(* Dates.  A datetime is the number of its day in 2020 (1 = 2020-01-01);   *)
(* every datetime the sources construct is a midnight UTC value, so the    *)
(* time of day is not modelled.  A date string ("%Y-%m-%d") is the tuple   *)
(* <<y, m, d>>.  An Optional value is a sequence of length 0 (None) or 1.  *)
(***************************************************************************)
EXTENDS Integers, Sequences, FiniteSets, TLC

VARIABLES
    experiment,     \* self.config.experiment: the fixed schedule of one Analysis
    metrics,        \* the cadences that are keys of self.config.metrics
    calls,          \* the latest (at most two) _get_timelimits_if_ready evaluations
    tables,         \* the warehouse: table/view name -> what was written to it
    dask_cluster,   \* the module global _dask_cluster and the LocalClusters created
    last            \* the latest check_runnable / ensure_enrollments / run call

vars == <<experiment, metrics, calls, tables, dask_cluster, last>>

None == <<>>
Some(x) == <<x>>
IsNone(o) == Len(o) = 0

-----------------------------------------------------------------------------
(* Bounds of the model. *)

\* number of days after FirstDay at which a call may be made
MaxDays == 15
\* proposed_enrollment ranges over 0..MaxEnrollment and the scenario's value
MaxEnrollment == 1
\* the experiment end dates range over StartDay .. StartDay + MaxLifetime
MaxLifetime == 2

-----------------------------------------------------------------------------
(* Calendar: datetime.strftime("%Y-%m-%d") and its parsing, for 2020. *)

Year == 2020

\* days of the year before the first day of month m (2020 is a leap year)
CumDays == <<0, 31, 60, 91, 121, 152, 182, 213, 244, 274, 305, 335, 366>>

\* strptime(s, "%Y-%m-%d") as a day number
ToOrdinal(s) == CumDays[s[2]] + s[3]

\* dt.strftime("%Y-%m-%d")
Strftime(n) ==
    LET m == CHOOSE k \in 1..12 : CumDays[k] < n /\ n <= CumDays[k + 1]
    IN  <<Year, m, n - CumDays[m]>>

\* mozanalysis.utils.add_days(date_string, n_days)
add_days(s, n) == Strftime(ToOrdinal(s) + n)

\* the experiment of the integration tests starts on 2020-03-30
StartDay == ToOrdinal(<<2020, 3, 30>>)
\* the earliest date a call is made for: the day before the start
FirstDay == StartDay - 1
Dates == FirstDay .. (FirstDay + MaxDays)

\* proposed_enrollment of the integration tests' experiment
ScenarioEnrollment == 7

-----------------------------------------------------------------------------
(* AnalysisPeriod and the window length of each periodic cadence. *)

DAY == "day"
WEEK == "week"
OVERALL == "overall"
Periods == {DAY, WEEK, OVERALL}

\* AnalysisPeriod.adjective
adjective(period) ==
    CASE period = DAY -> "daily"
      [] period = WEEK -> "weekly"
      [] OTHER -> "overall"

\* period_duration of TimeLimits.for_ts, in days
period_duration(adj) ==
    CASE adj = "daily" -> 1
      [] adj = "weekly" -> 7

-----------------------------------------------------------------------------
(* Results of a call: a value, None, or a raised exception. *)

Returned(v) == [kind |-> "return", value |-> v]
ReturnedNone == [kind |-> "none"]
Raised(e) == [kind |-> "raise", exc |-> e]

IsTimeLimits(r) == r.kind = "return"
IsNotReady(r) == r.kind = "none"
IsRaise(r) == r.kind = "raise"

AnalysisWindow(s, e) == [start |-> s, end |-> e]

(***************************************************************************)
(* TimeLimits.for_ts(first_enrollment_date, last_date_full_data,           *)
(* time_series_period, num_dates_enrollment) as analysis.py calls it: the  *)
(* windows are counted from the last enrollment date, a window of length L *)
(* is complete once the client enrolled last has L days of data, and       *)
(* ValueError is raised when not even one window is complete.  The         *)
(* integration test pins the count: start 2020-03-30, 7 + 1 enrollment     *)
(* dates, evaluated for 2020-04-12, weekly: one window, offsets 0..6.      *)
(***************************************************************************)
for_ts(first_enrollment_date, last_date_full_data, time_series_period, num_dates_enrollment) ==
    LET L == period_duration(time_series_period)
        last_enrollment_date == add_days(first_enrollment_date, num_dates_enrollment - 1)
        max_dates_of_data ==
            ToOrdinal(last_date_full_data) - ToOrdinal(last_enrollment_date) + 1
        num_periods == max_dates_of_data \div L
        windows == [i \in 1..num_periods |-> AnalysisWindow((i - 1) * L, i * L - 1)]
    IN  IF num_dates_enrollment <= 0 \/ num_periods <= 0
        THEN Raised("ValueError")
        ELSE Returned([first_enrollment_date |-> first_enrollment_date,
                       last_enrollment_date |-> last_enrollment_date,
                       analysis_windows |-> windows,
                       first_date_data_required |-> first_enrollment_date,
                       last_date_data_required |->
                           add_days(last_enrollment_date, windows[num_periods].end)])

(***************************************************************************)
(* TimeLimits.for_single_analysis_window with num_dates_enrollment given.  *)
(* AnalysisWindow validates start >= 0 and end >= start with assertions,   *)
(* so a window of length 0 or less never becomes a TimeLimits.             *)
(***************************************************************************)
for_single_analysis_window(first_enrollment_date, last_date_full_data, analysis_start_days, analysis_length_dates, num_dates_enrollment) ==
    LET window == AnalysisWindow(analysis_start_days,
                                 analysis_start_days + analysis_length_dates - 1)
        last_enrollment_date == add_days(first_enrollment_date, num_dates_enrollment - 1)
        last_date_data_required == add_days(last_enrollment_date, window.end)
    IN  IF window.start < 0 \/ window.end < window.start
        THEN Raised("AssertionError")
        ELSE IF ToOrdinal(last_date_data_required) > ToOrdinal(last_date_full_data)
        THEN Raised("ValueError")
        ELSE Returned([first_enrollment_date |-> first_enrollment_date,
                       last_enrollment_date |-> last_enrollment_date,
                       analysis_windows |-> <<window>>,
                       first_date_data_required |->
                           add_days(first_enrollment_date, window.start),
                       last_date_data_required |-> last_date_data_required])

-----------------------------------------------------------------------------
(* The experiment (self.config.experiment) and the readiness calculator. *)

Statuses == {"Live", "Complete"}

\* normandy_slug "test-experiment", character by character
Slug == <<"t", "e", "s", "t", "-", "e", "x", "p", "e", "r", "i", "m", "e", "n", "t">>

Experiment(slug, skip, high, proposed, start, end, status) ==
    [normandy_slug |-> slug, skip |-> skip, is_high_population |-> high,
     proposed_enrollment |-> proposed, start_date |-> start, end_date |-> end,
     status |-> status]

ProposedEnrollments == (0..MaxEnrollment) \cup {ScenarioEnrollment}
StartDates == {None, Some(StartDay)}
EndDates == {None} \cup {Some(d) : d \in StartDay..(StartDay + MaxLifetime)}

\* dates_enrollment, line 58
dates_enrollment_no_plus_one(exp) == exp.proposed_enrollment

dates_enrollment(exp) == exp.proposed_enrollment + 1

NumWindows(r) == Len(r.value.analysis_windows)

\* the periodic branch with first_enrollment_date and last_date_full_data mixed up
periodic_timelimits_swapped(exp, period, current_date) ==
    LET first == Strftime(exp.start_date[1])
        current_time_limits ==
            for_ts(Strftime(current_date), first, adjective(period), dates_enrollment(exp))
        prior_time_limits ==
            for_ts(Strftime(current_date - 1), first, adjective(period),
                   dates_enrollment(exp))
    IN  IF IsRaise(current_time_limits) THEN ReturnedNone
        ELSE IF IsRaise(prior_time_limits) THEN current_time_limits
        ELSE IF NumWindows(current_time_limits) = NumWindows(prior_time_limits)
        THEN ReturnedNone
        ELSE current_time_limits

\* the periodic branch with last_date_full_data one day late
periodic_timelimits_day_late(exp, period, current_date) ==
    LET first == Strftime(exp.start_date[1])
        current_time_limits ==
            for_ts(first, Strftime(current_date + 1), adjective(period),
                   dates_enrollment(exp))
        prior_time_limits ==
            for_ts(first, Strftime(current_date - 1), adjective(period),
                   dates_enrollment(exp))
    IN  IF IsRaise(current_time_limits) THEN ReturnedNone
        ELSE IF IsRaise(prior_time_limits) THEN current_time_limits
        ELSE IF NumWindows(current_time_limits) = NumWindows(prior_time_limits)
        THEN ReturnedNone
        ELSE current_time_limits

\* the periodic branch without the "No new data today" comparison
periodic_timelimits_no_compare(exp, period, current_date) ==
    LET first == Strftime(exp.start_date[1])
        current_time_limits ==
            for_ts(first, Strftime(current_date), adjective(period), dates_enrollment(exp))
    IN  IF IsRaise(current_time_limits) THEN ReturnedNone ELSE current_time_limits

\* lines 68-95: period != AnalysisPeriod.OVERALL
periodic_timelimits(exp, period, current_date) ==
    LET prior_date_str == Strftime(current_date - 1)
        current_date_str == Strftime(current_date)
        first == Strftime(exp.start_date[1])
        current_time_limits ==
            for_ts(first, current_date_str, adjective(period), dates_enrollment(exp))
        prior_time_limits ==
            for_ts(first, prior_date_str, adjective(period), dates_enrollment(exp))
    IN  IF IsRaise(current_time_limits)
        THEN ReturnedNone                       \* There are no analysis windows yet.
        ELSE IF IsRaise(prior_time_limits)
        THEN current_time_limits                \* just closed our first window
        ELSE IF NumWindows(current_time_limits) = NumWindows(prior_time_limits)
        THEN ReturnedNone                       \* No new data today
        ELSE current_time_limits

\* the overall branch without the status test
overall_timelimits_any_status(exp, current_date) ==
    IF IsNone(exp.end_date) \/ exp.end_date[1] # current_date
    THEN ReturnedNone
    ELSE LET analysis_length_dates ==
                 (exp.end_date[1] - exp.start_date[1]) - dates_enrollment(exp) + 1
         IN  IF analysis_length_dates < 0
             THEN Raised("EnrollmentLongerThanAnalysisException")
             ELSE for_single_analysis_window(
                      Strftime(exp.start_date[1]), Strftime(current_date - 1), 0,
                      analysis_length_dates, dates_enrollment(exp))

\* the overall branch with the analysis length one too large
overall_timelimits_off_by_one(exp, current_date) ==
    IF IsNone(exp.end_date) \/ exp.end_date[1] # current_date \/ exp.status # "Complete"
    THEN ReturnedNone
    ELSE LET analysis_length_dates ==
                 (exp.end_date[1] - exp.start_date[1]) - dates_enrollment(exp) + 2
         IN  IF analysis_length_dates < 0
             THEN Raised("EnrollmentLongerThanAnalysisException")
             ELSE for_single_analysis_window(
                      Strftime(exp.start_date[1]), Strftime(current_date - 1), 0,
                      analysis_length_dates - 1, dates_enrollment(exp))

\* lines 97-122: period == AnalysisPeriod.OVERALL
overall_timelimits(exp, current_date) ==
    IF IsNone(exp.end_date) \/ exp.end_date[1] # current_date \/ exp.status # "Complete"
    THEN ReturnedNone
    ELSE LET analysis_length_dates ==
                 (exp.end_date[1] - exp.start_date[1]) - dates_enrollment(exp) + 1
         IN  IF analysis_length_dates < 0
             THEN Raised("EnrollmentLongerThanAnalysisException")
             ELSE for_single_analysis_window(
                      Strftime(exp.start_date[1]), Strftime(current_date - 1), 0,
                      analysis_length_dates, dates_enrollment(exp))

\* a readiness calculator that raises when the start date is missing
get_timelimits_if_ready_raising(exp, period, current_date) ==
    IF IsNone(exp.start_date) THEN Raised("NoStartDateException")
    ELSE IF period # OVERALL THEN periodic_timelimits(exp, period, current_date)
    ELSE overall_timelimits(exp, current_date)

\* Analysis._get_timelimits_if_ready(period, current_date)
get_timelimits_if_ready(exp, period, current_date) ==
    IF IsNone(exp.start_date) THEN ReturnedNone
    ELSE IF period # OVERALL THEN periodic_timelimits(exp, period, current_date)
    ELSE overall_timelimits(exp, current_date)

-----------------------------------------------------------------------------
(* SpecReady: one Analysis with a fixed schedule; _get_timelimits_if_ready *)
(* is called for one cadence at arbitrary dates, in any order.             *)

NoCall == [op |-> "none", n |-> 0]
NoTables == [n \in {} |-> 0]

InitCommon ==
    /\ calls = <<>>
    /\ tables = NoTables
    /\ dask_cluster = [global |-> None, created |-> 0]
    /\ last = NoCall

InitReady ==
    /\ experiment \in {Experiment(Some(Slug), FALSE, FALSE, p, s, e, st) :
                           p \in ProposedEnrollments, s \in StartDates,
                           e \in EndDates, st \in Statuses}
    /\ metrics = {}
    /\ InitCommon

Call(period, date) ==
    [period |-> period, date |-> date,
     result |-> get_timelimits_if_ready(experiment, period, date)]

Evaluate(period, date) ==
    /\ IF calls = <<>> THEN TRUE ELSE calls[Len(calls)].period = period
    /\ calls' = IF Len(calls) < 2 THEN Append(calls, Call(period, date))
                ELSE <<calls[2], Call(period, date)>>
    /\ UNCHANGED <<experiment, metrics, tables, dask_cluster, last>>

EvaluatePeriodic == \E period \in {DAY, WEEK}, date \in Dates : Evaluate(period, date)

EvaluateOverall == \E date \in Dates : Evaluate(OVERALL, date)

NextReady == EvaluatePeriodic \/ EvaluateOverall

SpecReady == InitReady /\ [][NextReady]_vars

HasCall == Len(calls) >= 1
HasTwoCalls == Len(calls) = 2
Cur == calls[Len(calls)]
Prev == calls[1]

Periodic(c) == c.period # OVERALL

\* the TimeLimits computable as of a date, whatever the day before gave
limits_as_of(exp, period, date) ==
    for_ts(Strftime(exp.start_date[1]), Strftime(date), adjective(period),
           dates_enrollment(exp))

Lifetime(exp) == exp.end_date[1] - exp.start_date[1]

\* the dates of the model at which the overall cadence returns a TimeLimits
OverallReadyDates(exp) ==
    {d \in Dates : IsTimeLimits(get_timelimits_if_ready(exp, OVERALL, d))}

-----------------------------------------------------------------------------
(* Claims about the readiness calculator, checked under SpecReady. *)

\* C1: readiness monotonicity. For a fixed schedule and a periodic cadence, of
\* two calls at dates D1 <= D2 that both return a TimeLimits, the one at D1 has
\* no more analysis windows than the one at D2.
C1_ReadinessMonotone ==
    (/\ HasTwoCalls
     /\ Periodic(Prev) /\ Periodic(Cur)
     /\ Prev.date <= Cur.date
     /\ IsTimeLimits(Prev.result) /\ IsTimeLimits(Cur.result))
    => NumWindows(Prev.result) <= NumWindows(Cur.result)

C1_Witness ==
    /\ HasTwoCalls
    /\ Prev.period = WEEK /\ Cur.period = WEEK
    /\ Prev.date < Cur.date
    /\ IsTimeLimits(Prev.result) /\ IsTimeLimits(Cur.result)
    /\ NumWindows(Prev.result) = 1 /\ NumWindows(Cur.result) = 2

\* C2 as stated: first-window edge. For a periodic cadence, when the call at D-1
\* returns None and the call at D returns a TimeLimits, that TimeLimits has
\* exactly one analysis window.
C2_FirstWindowEdge_Original ==
    (/\ HasTwoCalls
     /\ Periodic(Prev) /\ Periodic(Cur)
     /\ Prev.date = Cur.date - 1
     /\ IsNotReady(Prev.result) /\ IsTimeLimits(Cur.result))
    => NumWindows(Cur.result) = 1

\* C2 as amended: when the call at D-1 returns None because no analysis window
\* is computable as of D-1 (for_ts raises for D-1), and the call at D returns a
\* TimeLimits, that TimeLimits has exactly one analysis window.
C2_FirstWindowEdge ==
    (/\ HasTwoCalls
     /\ Periodic(Prev) /\ Periodic(Cur)
     /\ Prev.date = Cur.date - 1
     /\ ~IsNone(experiment.start_date)
     /\ IsRaise(limits_as_of(experiment, Cur.period, Prev.date))
     /\ IsTimeLimits(Cur.result))
    => /\ IsNotReady(Prev.result)
       /\ NumWindows(Cur.result) = 1

C2_Witness ==
    /\ HasTwoCalls
    /\ Prev.period = WEEK /\ Cur.period = WEEK
    /\ Prev.date = Cur.date - 1
    /\ IsNotReady(Prev.result) /\ IsTimeLimits(Cur.result)
    /\ IsRaise(limits_as_of(experiment, WEEK, Prev.date))
    /\ NumWindows(Cur.result) = 1

\* C3: no-new-data idempotence. For a periodic cadence, when the window count
\* computable as of D equals the one computable as of D-1, the call at D
\* returns None.
C3_NoNewData ==
    (/\ HasCall
     /\ Periodic(Cur)
     /\ ~IsNone(experiment.start_date)
     /\ IsTimeLimits(limits_as_of(experiment, Cur.period, Cur.date))
     /\ IsTimeLimits(limits_as_of(experiment, Cur.period, Cur.date - 1))
     /\ NumWindows(limits_as_of(experiment, Cur.period, Cur.date))
            = NumWindows(limits_as_of(experiment, Cur.period, Cur.date - 1)))
    => IsNotReady(Cur.result)

C3_Witness ==
    /\ HasCall
    /\ Cur.period = WEEK
    /\ ~IsNone(experiment.start_date)
    /\ IsTimeLimits(limits_as_of(experiment, WEEK, Cur.date))
    /\ IsTimeLimits(limits_as_of(experiment, WEEK, Cur.date - 1))
    /\ NumWindows(limits_as_of(experiment, WEEK, Cur.date)) = 1
    /\ NumWindows(limits_as_of(experiment, WEEK, Cur.date - 1)) = 1
    /\ IsNotReady(Cur.result)

\* a TimeLimits of the overall cadence comes only for a Complete experiment on
\* its end date, and every other date, a missing end date or another status
\* gives None
OverallOnlyOnEndDate ==
    (HasCall /\ Cur.period = OVERALL) =>
        /\ IsTimeLimits(Cur.result) =>
               /\ experiment.status = "Complete"
               /\ experiment.end_date = Some(Cur.date)
        /\ (\/ experiment.status # "Complete"
            \/ experiment.end_date # Some(Cur.date)) => IsNotReady(Cur.result)

\* C4 as stated: overall cadence single-fire, and a Complete experiment is
\* ready on exactly one date.
C4_OverallSingleFire_Original ==
    /\ OverallOnlyOnEndDate
    /\ (HasCall /\ Cur.period = OVERALL /\ experiment.status = "Complete")
           => Cardinality(OverallReadyDates(experiment)) = 1

\* C4 as amended: overall cadence single-fire, and a Complete experiment is
\* ready on at most one date; it is ready on its end date, and only then, when
\* its start date is known and its lifetime exceeds the enrollment length.
C4_OverallSingleFire ==
    /\ OverallOnlyOnEndDate
    /\ (HasCall /\ Cur.period = OVERALL /\ experiment.status = "Complete") =>
           /\ Cardinality(OverallReadyDates(experiment)) <= 1
           /\ (/\ ~IsNone(experiment.start_date)
               /\ ~IsNone(experiment.end_date)
               /\ Lifetime(experiment) > experiment.proposed_enrollment)
              => OverallReadyDates(experiment) = {experiment.end_date[1]}
           /\ (/\ ~IsNone(experiment.start_date)
               /\ ~IsNone(experiment.end_date)
               /\ Lifetime(experiment) <= experiment.proposed_enrollment)
              => OverallReadyDates(experiment) = {}

C4_Witness ==
    /\ HasTwoCalls
    /\ Prev.period = OVERALL /\ Cur.period = OVERALL
    /\ experiment.status = "Complete"
    /\ experiment.end_date = Some(Prev.date)
    /\ IsTimeLimits(Prev.result)
    /\ Cur.date # Prev.date
    /\ IsNotReady(Cur.result)

\* C5: negative-length rejection. For the overall cadence on the end date of a
\* Complete experiment, an enrollment length above the experiment lifetime
\* raises EnrollmentLongerThanAnalysisException, and no returned TimeLimits has
\* a window of zero or negative length.
C5_NegativeLengthRejected ==
    (/\ HasCall
     /\ Cur.period = OVERALL
     /\ experiment.status = "Complete"
     /\ ~IsNone(experiment.start_date)
     /\ experiment.end_date = Some(Cur.date)) =>
        /\ experiment.proposed_enrollment > Lifetime(experiment)
               => Cur.result = Raised("EnrollmentLongerThanAnalysisException")
        /\ IsTimeLimits(Cur.result) =>
               /\ NumWindows(Cur.result) = 1
               /\ Cur.result.value.analysis_windows[1].end
                      >= Cur.result.value.analysis_windows[1].start

C5_Witness ==
    /\ HasCall
    /\ Cur.period = OVERALL
    /\ experiment.status = "Complete"
    /\ ~IsNone(experiment.start_date)
    /\ experiment.end_date = Some(Cur.date)
    /\ experiment.proposed_enrollment = Lifetime(experiment) + 1
    /\ Cur.result = Raised("EnrollmentLongerThanAnalysisException")

ScenarioExperiment ==
    /\ experiment.start_date = Some(ToOrdinal(<<2020, 3, 30>>))
    /\ experiment.proposed_enrollment = ScenarioEnrollment

ScenarioDate == ToOrdinal(<<2020, 4, 12>>)

\* C7: the scenario. Start 2020-03-30, 7-day enrollment, weekly cadence,
\* evaluated for 2020-04-12: a TimeLimits with the single window 0..6; a second
\* evaluation with the same cadence, schedule and date gives the same result.
C7_Scenario ==
    /\ (HasCall /\ ScenarioExperiment /\ Cur.period = WEEK /\ Cur.date = ScenarioDate) =>
           /\ IsTimeLimits(Cur.result)
           /\ Cur.result.value.analysis_windows = <<AnalysisWindow(0, 6)>>
           /\ Cur.result.value.first_enrollment_date = <<2020, 3, 30>>
    /\ (HasTwoCalls /\ Prev.period = Cur.period /\ Prev.date = Cur.date) =>
           Prev.result = Cur.result

C7_Witness ==
    /\ HasTwoCalls
    /\ ScenarioExperiment
    /\ Prev.period = WEEK /\ Prev.date = ScenarioDate
    /\ Cur.period = WEEK /\ Cur.date = ScenarioDate
    /\ IsTimeLimits(Cur.result)

-----------------------------------------------------------------------------
(* check_runnable, ensure_enrollments and run. *)

Alnum ==
    {"a", "b", "c", "d", "e", "f", "g", "h", "i", "j", "k", "l", "m",
     "n", "o", "p", "q", "r", "s", "t", "u", "v", "w", "x", "y", "z",
     "A", "B", "C", "D", "E", "F", "G", "H", "I", "J", "K", "L", "M",
     "N", "O", "P", "Q", "R", "S", "T", "U", "V", "W", "X", "Y", "Z",
     "0", "1", "2", "3", "4", "5", "6", "7", "8", "9"}

\* bq_normalize_name: every character outside [A-Za-z0-9] becomes "_"
RECURSIVE bq_normalize_name(_)
bq_normalize_name(name) ==
    IF name = <<>> THEN ""
    ELSE (IF Head(name) \in Alnum THEN Head(name) ELSE "_")
             \o bq_normalize_name(Tail(name))

\* check_runnable with the high-population test ahead of the skip test
check_runnable_high_first(exp, current_date) ==
    IF IsNone(exp.normandy_slug) THEN Raised("NoSlugException")
    ELSE IF exp.is_high_population THEN Raised("HighPopulationException")
    ELSE IF exp.skip THEN Raised("ExplicitSkipException")
    ELSE IF exp.proposed_enrollment = 0 THEN Raised("NoEnrollmentPeriodException")
    ELSE IF IsNone(exp.start_date) THEN Raised("NoStartDateException")
    ELSE IF /\ ~IsNone(current_date)
            /\ ~IsNone(exp.end_date)
            /\ exp.end_date[1] < current_date[1]
         THEN Raised("EndedException")
    ELSE Returned(TRUE)

\* check_runnable treating the end date itself as ended
check_runnable_ended_on_end_date(exp, current_date) ==
    IF IsNone(exp.normandy_slug) THEN Raised("NoSlugException")
    ELSE IF exp.skip THEN Raised("ExplicitSkipException")
    ELSE IF exp.is_high_population THEN Raised("HighPopulationException")
    ELSE IF exp.proposed_enrollment = 0 THEN Raised("NoEnrollmentPeriodException")
    ELSE IF IsNone(exp.start_date) THEN Raised("NoStartDateException")
    ELSE IF /\ ~IsNone(current_date)
            /\ ~IsNone(exp.end_date)
            /\ exp.end_date[1] <= current_date[1]
         THEN Raised("EndedException")
    ELSE Returned(TRUE)

\* Analysis.check_runnable(current_date); current_date is Optional
check_runnable(exp, current_date) ==
    IF IsNone(exp.normandy_slug) THEN Raised("NoSlugException")
    ELSE IF exp.skip THEN Raised("ExplicitSkipException")
    ELSE IF exp.is_high_population THEN Raised("HighPopulationException")
    ELSE IF exp.proposed_enrollment = 0 THEN Raised("NoEnrollmentPeriodException")
    ELSE IF IsNone(exp.start_date) THEN Raised("NoStartDateException")
    ELSE IF /\ ~IsNone(current_date)
            /\ ~IsNone(exp.end_date)
            /\ exp.end_date[1] < current_date[1]
         THEN Raised("EndedException")
    ELSE Returned(TRUE)

\* the warehouse with one table or view written
Put(tbls, name, content) ==
    [n \in DOMAIN tbls \cup {name} |-> IF n = name THEN content ELSE tbls[n]]

\* BigQueryClient.execute(sql, destination_table, write_disposition)
ExecuteCall(dest, mode) == [call |-> "execute", table |-> dest, mode |-> mode]
\* BigQueryClient.load_table_from_json(rows, table, job_config)
LoadCall(dest, mode) == [call |-> "load_table_from_json", table |-> dest, mode |-> mode]

\* what a call leaves behind: its result, the warehouse calls it issued, the
\* warehouse, the worker-pool global and the result tables its metrics nodes name
Outcome(result, effects, tbls, cluster, names) ==
    [result |-> result, effects |-> effects, tables |-> tbls, cluster |-> cluster,
     metrics_tables |-> names]

enrollments_table_name(exp) == "enrollments_" \o bq_normalize_name(exp.normandy_slug[1])

\* the failures a warehouse job can end with besides Conflict
\* (google.api_core.exceptions)
WarehouseFailures == {"Forbidden", "InternalServerError"}

\* BigQueryClient.execute(sql, destination, WRITE_EMPTY): the job ends with the
\* failure the warehouse suffers from, if any; with Conflict when the
\* destination exists; else it creates the destination
bigquery_execute_write_empty(tbls, dest, content, failure) ==
    IF ~IsNone(failure) THEN [result |-> Raised(failure[1]), tables |-> tbls]
    ELSE IF dest \in DOMAIN tbls THEN [result |-> Raised("Conflict"), tables |-> tbls]
    ELSE [result |-> ReturnedNone, tables |-> Put(tbls, dest, content)]

\* lines 464-490 writing in WRITE_TRUNCATE mode
create_enrollments_truncating(exp, tbls, cluster, time_limits, failure) ==
    IF IsNone(exp.start_date)
    THEN Outcome(Raised("NoStartDateException"), {}, tbls, cluster, {})
    ELSE IF IsNone(exp.normandy_slug)
    THEN Outcome(Raised("TypeError"), {}, tbls, cluster, {})
    ELSE IF ~IsNone(failure)
    THEN Outcome(Raised(failure[1]),
                 {ExecuteCall(enrollments_table_name(exp), "WRITE_TRUNCATE")},
                 tbls, cluster, {})
    ELSE Outcome(ReturnedNone,
                 {ExecuteCall(enrollments_table_name(exp), "WRITE_TRUNCATE")},
                 Put(tbls, enrollments_table_name(exp),
                     [kind |-> "enrollments", time_limits |-> time_limits]),
                 cluster, {})

\* lines 464-490 with `except Exception: pass`
create_enrollments_swallow_all(exp, tbls, cluster, time_limits, failure) ==
    IF IsNone(exp.start_date)
    THEN Outcome(Raised("NoStartDateException"), {}, tbls, cluster, {})
    ELSE IF IsNone(exp.normandy_slug)
    THEN Outcome(Raised("TypeError"), {}, tbls, cluster, {})
    ELSE LET enrollments_table == enrollments_table_name(exp)
             job == bigquery_execute_write_empty(
                        tbls, enrollments_table,
                        [kind |-> "enrollments", time_limits |-> time_limits], failure)
         IN  Outcome(ReturnedNone, {ExecuteCall(enrollments_table, "WRITE_EMPTY")},
                     job.tables, cluster, {})

\* lines 464-490 of ensure_enrollments: the enrollment query written in
\* WRITE_EMPTY mode while the warehouse suffers from `failure` (None: from none)
create_enrollments(exp, tbls, cluster, time_limits, failure) ==
    IF IsNone(exp.start_date)
    THEN Outcome(Raised("NoStartDateException"), {}, tbls, cluster, {})
    ELSE IF IsNone(exp.normandy_slug)
    THEN Outcome(Raised("TypeError"), {}, tbls, cluster, {})
    ELSE LET enrollments_table == enrollments_table_name(exp)
             job == bigquery_execute_write_empty(
                        tbls, enrollments_table,
                        [kind |-> "enrollments", time_limits |-> time_limits], failure)
         IN  Outcome(IF job.result = Raised("Conflict")
                     THEN ReturnedNone                          \* except Conflict: pass
                     ELSE job.result,
                     {ExecuteCall(enrollments_table, "WRITE_EMPTY")},
                     job.tables, cluster, {})

\* the write of ensure_enrollments, lines 464-490, on a warehouse that fails
\* no job but with Conflict
write_enrollments(exp, tbls, cluster, time_limits) ==
    create_enrollments(exp, tbls, cluster, time_limits, None)

\* ensure_enrollments deciding readiness with the weekly cadence
ensure_enrollments_weekly(exp, tbls, cluster, current_date) ==
    LET time_limits == get_timelimits_if_ready(exp, WEEK, current_date)
    IN  IF IsNotReady(time_limits) THEN Outcome(ReturnedNone, {}, tbls, cluster, {})
        ELSE write_enrollments(exp, tbls, cluster, time_limits.value)

\* Analysis.ensure_enrollments(current_date)
ensure_enrollments(exp, tbls, cluster, current_date) ==
    LET time_limits == get_timelimits_if_ready(exp, DAY, current_date)
    IN  IF IsNotReady(time_limits) THEN Outcome(ReturnedNone, {}, tbls, cluster, {})
        ELSE write_enrollments(exp, tbls, cluster, time_limits.value)

\* Analysis.ensure_enrollments(current_date) while the warehouse suffers from
\* `failure`
ensure_enrollments_under(exp, tbls, cluster, current_date, failure) ==
    LET time_limits == get_timelimits_if_ready(exp, DAY, current_date)
    IN  IF IsNotReady(time_limits) THEN Outcome(ReturnedNone, {}, tbls, cluster, {})
        ELSE create_enrollments(exp, tbls, cluster, time_limits.value, failure)

\* the cadence-named variant: the adjective in place of the period value
table_name_by_adjective(exp, window_period, window_index) ==
    bq_normalize_name(exp.normandy_slug[1]) \o "_" \o adjective(window_period)
        \o "_" \o ToString(window_index)

\* Analysis._table_name(window_period, window_index)
table_name(exp, window_period, window_index) ==
    bq_normalize_name(exp.normandy_slug[1]) \o "_" \o window_period
        \o "_" \o ToString(window_index)

\* the view name of Analysis._publish_view(window_period, table_prefix)
view_name(exp, period, table_prefix) ==
    table_prefix \o bq_normalize_name(exp.normandy_slug[1]) \o "_" \o adjective(period)

\* the wildcard expression of Analysis._publish_view
wildcard_expr(exp, period, table_prefix) ==
    table_prefix \o bq_normalize_name(exp.normandy_slug[1]) \o "_" \o period \o "_*"

\* a LocalCluster for every run
set_up_dask_always_new(cluster) ==
    [global |-> Some(cluster.created + 1), created |-> cluster.created + 1]

\* set up dask: _dask_cluster = _dask_cluster or LocalCluster(...)
set_up_dask(cluster) ==
    IF IsNone(cluster.global)
    THEN [global |-> Some(cluster.created + 1), created |-> cluster.created + 1]
    ELSE cluster

\* calculate_metrics recomputing every window of the time limits
cadence_writes_all_windows(exp, tbls, period, time_limits) ==
    LET window == NumWindows(time_limits)
        res_table_name == table_name(exp, period, window)
        res_tables == {table_name(exp, period, i) : i \in 1..window}
    IN  [n \in res_tables \cup {view_name(exp, period, ""),
                "statistics_" \o res_table_name, view_name(exp, period, "statistics_")} |->
            IF n \in res_tables
            THEN [kind |-> "metrics",
                  window |-> time_limits.value.analysis_windows[
                                 CHOOSE i \in 1..window : n = table_name(exp, period, i)],
                  enrollments |-> tbls[enrollments_table_name(exp)]]
            ELSE IF n = view_name(exp, period, "")
            THEN [kind |-> "view", over |-> wildcard_expr(exp, period, "")]
            ELSE IF n = "statistics_" \o res_table_name
            THEN [kind |-> "statistics", of |-> res_table_name]
            ELSE [kind |-> "view", over |-> wildcard_expr(exp, period, "statistics_")]]

\* calculate_metrics appending to the result table of the window
cadence_writes_appending(exp, tbls, period, time_limits) ==
    LET window == NumWindows(time_limits)
        res_table_name == table_name(exp, period, window)
    IN  [n \in {res_table_name, view_name(exp, period, ""),
                "statistics_" \o res_table_name, view_name(exp, period, "statistics_")} |->
            IF n = res_table_name
            THEN [kind |-> "metrics",
                  window |-> time_limits.value.analysis_windows[window],
                  enrollments |-> tbls[enrollments_table_name(exp)],
                  appended_to |-> IF n \in DOMAIN tbls THEN Some(tbls[n]) ELSE None]
            ELSE IF n = view_name(exp, period, "")
            THEN [kind |-> "view", over |-> wildcard_expr(exp, period, "")]
            ELSE IF n = "statistics_" \o res_table_name
            THEN [kind |-> "statistics", of |-> res_table_name]
            ELSE [kind |-> "view", over |-> wildcard_expr(exp, period, "statistics_")]]

\* the tables and views the task graph of one ready cadence writes (not a dry
\* run): calculate_metrics, then save_statistics
cadence_writes(exp, tbls, period, time_limits) ==
    LET window == NumWindows(time_limits)
        res_table_name == table_name(exp, period, window)
    IN  [n \in {res_table_name, view_name(exp, period, ""),
                "statistics_" \o res_table_name, view_name(exp, period, "statistics_")} |->
            IF n = res_table_name
            THEN [kind |-> "metrics",
                  window |-> time_limits.value.analysis_windows[window],
                  enrollments |-> tbls[enrollments_table_name(exp)]]
            ELSE IF n = view_name(exp, period, "")
            THEN [kind |-> "view", over |-> wildcard_expr(exp, period, "")]
            ELSE IF n = "statistics_" \o res_table_name
            THEN [kind |-> "statistics", of |-> res_table_name]
            ELSE [kind |-> "view", over |-> wildcard_expr(exp, period, "statistics_")]]

\* the warehouse calls of the task graph of one ready cadence (not a dry run)
cadence_calls(exp, period, time_limits) ==
    LET res_table_name == table_name(exp, period, NumWindows(time_limits))
    IN  {ExecuteCall(res_table_name, "WRITE_TRUNCATE"),
         ExecuteCall(view_name(exp, period, ""), "CREATE OR REPLACE VIEW"),
         LoadCall("statistics_" \o res_table_name, "WRITE_TRUNCATE"),
         ExecuteCall(view_name(exp, period, "statistics_"), "CREATE OR REPLACE VIEW")}

\* the loop of run going over every cadence instead of self.config.metrics
run_tasks_every_period(exp, mets, enr, current_date, dry_run) ==
    LET cluster == set_up_dask(enr.cluster)
        limits == [p \in Periods |-> get_timelimits_if_ready(exp, p, current_date)]
        raising == {p \in Periods : IsRaise(limits[p])}
        ready == {p \in Periods : IsTimeLimits(limits[p])}
        names == {table_name(exp, p, NumWindows(limits[p])) : p \in ready}
        writes == [p \in ready |-> cadence_writes(exp, enr.tables, p, limits[p])]
        written == UNION {DOMAIN writes[p] : p \in ready}
    IN  IF raising # {}
        THEN Outcome(limits[CHOOSE p \in raising : TRUE], enr.effects, enr.tables,
                     cluster, {})
        ELSE IF dry_run
        THEN Outcome(ReturnedNone, enr.effects, enr.tables, cluster, names)
        ELSE IF ready # {} /\ enrollments_table_name(exp) \notin DOMAIN enr.tables
        THEN Outcome(Raised("NotFound"), enr.effects, enr.tables, cluster, names)
        ELSE Outcome(ReturnedNone,
                     enr.effects \cup UNION {cadence_calls(exp, p, limits[p]) : p \in ready},
                     [n \in DOMAIN enr.tables \cup written |->
                         IF n \in written
                         THEN writes[CHOOSE p \in ready : n \in DOMAIN writes[p]][n]
                         ELSE enr.tables[n]],
                     cluster, names)

\* lines 394-454 of run: the worker pool, the task graph and its computation
run_tasks(exp, mets, enr, current_date, dry_run) ==
    LET cluster == set_up_dask(enr.cluster)
        limits == [p \in mets |-> get_timelimits_if_ready(exp, p, current_date)]
        raising == {p \in mets : IsRaise(limits[p])}
        ready == {p \in mets : IsTimeLimits(limits[p])}
        names == {table_name(exp, p, NumWindows(limits[p])) : p \in ready}
        writes == [p \in ready |-> cadence_writes(exp, enr.tables, p, limits[p])]
        written == UNION {DOMAIN writes[p] : p \in ready}
    IN  IF raising # {}
        THEN Outcome(limits[CHOOSE p \in raising : TRUE], enr.effects, enr.tables,
                     cluster, {})
        ELSE IF dry_run
        THEN Outcome(ReturnedNone, enr.effects, enr.tables, cluster, names)
        ELSE IF ready # {} /\ enrollments_table_name(exp) \notin DOMAIN enr.tables
        THEN Outcome(Raised("NotFound"), enr.effects, enr.tables, cluster, names)
        ELSE Outcome(ReturnedNone,
                     enr.effects \cup UNION {cadence_calls(exp, p, limits[p]) : p \in ready},
                     [n \in DOMAIN enr.tables \cup written |->
                         IF n \in written
                         THEN writes[CHOOSE p \in ready : n \in DOMAIN writes[p]][n]
                         ELSE enr.tables[n]],
                     cluster, names)

\* run with ensure_enrollments ahead of check_runnable
run_enrollments_first(exp, mets, tbls, cluster, current_date, dry_run) ==
    LET enr == ensure_enrollments(exp, tbls, cluster, current_date)
        runnable == check_runnable(exp, Some(current_date))
    IN  IF IsRaise(enr.result) THEN enr
        ELSE IF IsRaise(runnable)
        THEN Outcome(runnable, enr.effects, enr.tables, cluster, {})
        ELSE run_tasks(exp, mets, enr, current_date, dry_run)

\* run without the ensure_enrollments step of line 392
run_without_enrollments(exp, mets, tbls, cluster, current_date, dry_run) ==
    LET runnable == check_runnable(exp, Some(current_date))
    IN  IF IsRaise(runnable) THEN Outcome(runnable, {}, tbls, cluster, {})
        ELSE run_tasks(exp, mets, Outcome(ReturnedNone, {}, tbls, cluster, {}),
                       current_date, dry_run)

\* Analysis.run(current_date, dry_run)
run(exp, mets, tbls, cluster, current_date, dry_run) ==
    LET runnable == check_runnable(exp, Some(current_date))
        enr == ensure_enrollments(exp, tbls, cluster, current_date)
    IN  IF IsRaise(runnable) THEN Outcome(runnable, {}, tbls, cluster, {})
        ELSE IF IsRaise(enr.result) THEN enr
        ELSE run_tasks(exp, mets, enr, current_date, dry_run)

-----------------------------------------------------------------------------
(* SpecCheck: check_runnable on every experiment, with and without a date. *)

\* the dates for which check_runnable, ensure_enrollments and run are called, as
\* days after the start date: the start date itself, the first day with a
\* daily window, the day the overall window of the longest lifetime closes,
\* and the first day with a weekly window
RunOffsets == {0, 1, MaxLifetime, 7}
RunDates == {StartDay + k : k \in RunOffsets}

AllExperiments ==
    {Experiment(sl, sk, hp, p, s, e, st) :
         sl \in {None, Some(Slug)}, sk \in BOOLEAN, hp \in BOOLEAN,
         p \in 0..MaxEnrollment, s \in StartDates, e \in EndDates, st \in Statuses}

InitCheck ==
    /\ experiment \in AllExperiments
    /\ metrics = {}
    /\ InitCommon

CheckRunnable(current_date) ==
    /\ last' = [op |-> "check_runnable", n |-> 1, date |-> current_date,
                result |-> check_runnable(experiment, current_date)]
    /\ UNCHANGED <<experiment, metrics, calls, tables, dask_cluster>>

CheckRunnableNoDate == CheckRunnable(None)

CheckRunnableAt == \E d \in RunDates : CheckRunnable(Some(d))

NextCheck == CheckRunnableNoDate \/ CheckRunnableAt

SpecCheck == InitCheck /\ [][NextCheck]_vars

\* the precondition failures in the order of the specification, and their exceptions
PreconditionOrder ==
    <<"NoSlugException", "ExplicitSkipException", "HighPopulationException",
      "NoEnrollmentPeriodException", "NoStartDateException", "EndedException">>

\* the precondition failures that hold of the experiment for a date
Failing(exp, current_date) ==
    {i \in 1..6 :
        \/ i = 1 /\ IsNone(exp.normandy_slug)
        \/ i = 2 /\ exp.skip
        \/ i = 3 /\ exp.is_high_population
        \/ i = 4 /\ exp.proposed_enrollment = 0
        \/ i = 5 /\ IsNone(exp.start_date)
        \/ i = 6 /\ ~IsNone(current_date) /\ ~IsNone(exp.end_date)
                 /\ exp.end_date[1] < current_date[1]}

Min(S) == CHOOSE i \in S : \A j \in S : i <= j

\* C8: precondition order. check_runnable raises the exception of the first
\* condition that holds, in the order missing slug, explicit skip, high
\* population, no enrollment period, no start date, ended before the date; it
\* returns True only when none holds.
C8_PreconditionOrder ==
    last.op = "check_runnable" =>
        LET failing == Failing(experiment, last.date)
        IN  IF failing = {} THEN last.result = Returned(TRUE)
            ELSE last.result = Raised(PreconditionOrder[Min(failing)])

C8_Witness ==
    /\ last.op = "check_runnable"
    /\ {2, 3, 6} \subseteq Failing(experiment, last.date)
    /\ last.result = Raised("ExplicitSkipException")

-----------------------------------------------------------------------------
(* SpecRun: one Analysis; run and ensure_enrollments are called for         *)
(* arbitrary dates, at most MaxOps times.                                   *)

\* number of run / ensure_enrollments calls in a behaviour
MaxOps == 2

\* the keys of self.config.metrics
MetricsConfigs == {{WEEK, OVERALL}, {DAY, WEEK, OVERALL}}

InitRun ==
    /\ experiment \in AllExperiments
    /\ metrics \in MetricsConfigs
    /\ InitCommon

Run(current_date, dry_run) ==
    /\ last.n < MaxOps
    /\ LET out == run(experiment, metrics, tables, dask_cluster, current_date, dry_run)
       IN  /\ tables' = out.tables
           /\ dask_cluster' = out.cluster
           /\ last' = [op |-> "run", n |-> last.n + 1, date |-> current_date,
                       dry_run |-> dry_run, result |-> out.result,
                       effects |-> out.effects, metrics_tables |-> out.metrics_tables]
    /\ UNCHANGED <<experiment, metrics, calls>>

EnsureEnrollments(current_date) ==
    /\ last.n < MaxOps
    /\ LET out == ensure_enrollments(experiment, tables, dask_cluster, current_date)
       IN  /\ tables' = out.tables
           /\ last' = [op |-> "ensure_enrollments", n |-> last.n + 1,
                       date |-> current_date, result |-> out.result,
                       effects |-> out.effects]
    /\ UNCHANGED <<experiment, metrics, calls, dask_cluster>>

RunAnalysis == \E d \in RunDates : Run(d, FALSE)

RunDry == \E d \in RunDates : Run(d, TRUE)

EnsureEnrollmentsAt == \E d \in RunDates : EnsureEnrollments(d)

NextRun == RunAnalysis \/ RunDry \/ EnsureEnrollmentsAt

SpecRun == InitRun /\ [][NextRun]_vars

\* the DAY cadence is ready for the experiment at a date
DayReady(exp, date) == IsTimeLimits(get_timelimits_if_ready(exp, DAY, date))

\* C9: when a precondition of check_runnable fails, run raises its exception
\* before any side effect: it issues no warehouse call, writes no table or
\* view, and creates no worker pool.
C9_RunAbortsBeforeSideEffects ==
    [][(/\ last'.op = "run"
        /\ IsRaise(check_runnable(experiment, Some(last'.date))))
       => /\ last'.result = check_runnable(experiment, Some(last'.date))
          /\ last'.effects = {}
          /\ tables' = tables
          /\ dask_cluster' = dask_cluster]_vars

C9_Witness ==
    /\ last.op = "run"
    /\ last.result = Raised("ExplicitSkipException")
    /\ DayReady(experiment, last.date)
    /\ last.effects = {}
    /\ tables = NoTables
    /\ dask_cluster.created = 0

\* C10: ensure_enrollments decides with the DAY cadence. When the DAY cadence
\* is not ready at the date, the call issues no warehouse call and leaves the
\* warehouse as it was; when it is ready (and the experiment has a slug), the
\* call issues the enrollment-table write.
C10_EnsureEnrollmentsNoOp ==
    [][last'.op = "ensure_enrollments" =>
          /\ ~DayReady(experiment, last'.date) =>
                 /\ last'.result = ReturnedNone
                 /\ last'.effects = {}
                 /\ tables' = tables
          /\ (DayReady(experiment, last'.date) /\ ~IsNone(experiment.normandy_slug)) =>
                 last'.effects =
                     {ExecuteCall(enrollments_table_name(experiment), "WRITE_EMPTY")}]_vars

C10_Witness ==
    /\ last.op = "ensure_enrollments"
    /\ last.n = 2
    /\ ~DayReady(experiment, last.date)
    /\ last.effects = {}
    /\ tables # NoTables

\* the cadences of config.metrics that are ready at a date
ReadyCadences(exp, mets, date) ==
    {p \in mets : IsTimeLimits(get_timelimits_if_ready(exp, p, date))}

\* the number of analysis windows of a ready cadence at a date
WindowCount(exp, period, date) == NumWindows(get_timelimits_if_ready(exp, period, date))

\* the window indexes a cadence can have at the dates of the model
WindowIndexes == 1..MaxDays

\* every result table, statistics table and rolling view of a cadence
CadenceNames(exp, period) ==
    {table_name(exp, period, i) : i \in WindowIndexes}
        \cup {"statistics_" \o table_name(exp, period, i) : i \in WindowIndexes}
        \cup {view_name(exp, period, ""), view_name(exp, period, "statistics_")}

\* the tables and views a set of warehouse calls writes
Destinations(effects) == {c.table : c \in effects}

\* a table or view is the same, or as absent, in two warehouses
SameIn(tbls1, tbls2, n) ==
    /\ n \in DOMAIN tbls1 <=> n \in DOMAIN tbls2
    /\ n \in DOMAIN tbls1 => tbls1[n] = tbls2[n]

\* C14: a run that returns has built tasks for exactly the cadences of
\* config.metrics that are ready at current_date: its metrics nodes name the
\* result tables of those cadences and, unless it is a dry run, it writes them.
\* For every other cadence the call issues no write of a result table,
\* statistics table or rolling view of that cadence and leaves them as they
\* were; when no cadence is ready it writes none of any cadence.
C14_OnlyReadyCadences ==
    [][(last'.op = "run" /\ last'.result = ReturnedNone) =>
          LET ready == ReadyCadences(experiment, metrics, last'.date)
          IN  /\ last'.metrics_tables =
                     {table_name(experiment, p, WindowCount(experiment, p, last'.date)) :
                          p \in ready}
              /\ ~last'.dry_run =>
                     last'.metrics_tables \subseteq Destinations(last'.effects)
              /\ \A p \in Periods \ ready : \A n \in CadenceNames(experiment, p) :
                     /\ n \notin Destinations(last'.effects)
                     /\ SameIn(tables, tables', n)]_vars

\* a run wrote the daily tables and nothing of the weekly cadence, which is
\* configured and not ready
C14_Witness ==
    /\ last.op = "run"
    /\ last.n = 1
    /\ ~last.dry_run
    /\ last.result = ReturnedNone
    /\ WEEK \in metrics
    /\ ReadyCadences(experiment, metrics, last.date) = {DAY}
    /\ table_name(experiment, DAY, WindowCount(experiment, DAY, last.date))
           \in DOMAIN tables
    /\ \A n \in CadenceNames(experiment, WEEK) : n \notin DOMAIN tables

\* C15: for a ready cadence with n analysis windows, calculate_metrics writes
\* the result table with window index n from the query over the n-th window
\* alone; the run issues no write of the result tables with index 1..n-1 of
\* that cadence and leaves them as they were.
C15_LastWindowOnly ==
    [][(last'.op = "run" /\ ~last'.dry_run /\ last'.result = ReturnedNone) =>
          \A p \in ReadyCadences(experiment, metrics, last'.date) :
              LET time_limits == get_timelimits_if_ready(experiment, p, last'.date)
                  n == NumWindows(time_limits)
              IN  /\ ExecuteCall(table_name(experiment, p, n), "WRITE_TRUNCATE")
                         \in last'.effects
                  /\ tables'[table_name(experiment, p, n)].window
                         = time_limits.value.analysis_windows[n]
                  /\ \A i \in 1..(n - 1) :
                         /\ table_name(experiment, p, i) \notin Destinations(last'.effects)
                         /\ SameIn(tables, tables', table_name(experiment, p, i))]_vars

\* the second run wrote the table of a later window next to the table an
\* earlier run wrote
C15_Witness ==
    /\ last.op = "run"
    /\ last.n = 2
    /\ ~last.dry_run
    /\ last.result = ReturnedNone
    /\ \E p \in ReadyCadences(experiment, metrics, last.date) :
           \E i \in 1..(WindowCount(experiment, p, last.date) - 1) :
               /\ table_name(experiment, p, i) \in DOMAIN tables
               /\ table_name(experiment, p, WindowCount(experiment, p, last.date))
                      \in DOMAIN tables
               /\ table_name(experiment, p, 1) \notin DOMAIN tables

\* C16: a dry run issues no warehouse write and leaves the warehouse as it
\* was, the enrollment table included, and its metrics nodes return the result
\* table names of the ready cadences.
C16_DryRunWritesNothing ==
    [][(last'.op = "run" /\ last'.dry_run) =>
          /\ last'.effects = {}
          /\ tables' = tables
          /\ last'.result = ReturnedNone =>
                 last'.metrics_tables =
                     {table_name(experiment, p, WindowCount(experiment, p, last'.date)) :
                          p \in ReadyCadences(experiment, metrics, last'.date)}]_vars

-----------------------------------------------------------------------------
(* SpecEnroll: the enrollment table of one experiment under run,             *)
(* ensure_enrollments on a warehouse that may fail the job, and the deletion *)
(* of recreate_enrollments; at most MaxOps calls.                            *)

\* a deletion that leaves the table where it is
delete_enrollment_table_keeping(exp, tbls) == tbls

\* AnalysisExecutor._delete_enrollment_table(experiment)
delete_enrollment_table(exp, tbls) ==
    [n \in DOMAIN tbls \ {enrollments_table_name(exp)} |-> tbls[n]]

\* the experiments the executor hands to an Analysis: those with a slug
SluggedExperiments == {exp \in AllExperiments : ~IsNone(exp.normandy_slug)}

InitEnroll ==
    /\ experiment \in SluggedExperiments
    /\ metrics = {DAY, WEEK, OVERALL}
    /\ InitCommon

EnsureEnrollmentsUnder(current_date, failure) ==
    /\ last.n < MaxOps
    /\ LET out == ensure_enrollments_under(experiment, tables, dask_cluster,
                                           current_date, failure)
       IN  /\ tables' = out.tables
           /\ last' = [op |-> "ensure_enrollments", n |-> last.n + 1,
                       date |-> current_date, failure |-> failure,
                       result |-> out.result, effects |-> out.effects]
    /\ UNCHANGED <<experiment, metrics, calls, dask_cluster>>

EnsureEnrollmentsOk == \E d \in RunDates : EnsureEnrollmentsUnder(d, None)

EnsureEnrollmentsFailing ==
    \E d \in RunDates, f \in WarehouseFailures : EnsureEnrollmentsUnder(d, Some(f))

DeleteEnrollmentTable ==
    /\ last.n < MaxOps
    /\ tables' = delete_enrollment_table(experiment, tables)
    /\ last' = [op |-> "delete_enrollment_table", n |-> last.n + 1]
    /\ UNCHANGED <<experiment, metrics, calls, dask_cluster>>

NextEnroll ==
    \/ EnsureEnrollmentsOk
    \/ EnsureEnrollmentsFailing
    \/ RunAnalysis
    \/ RunDry
    \/ DeleteEnrollmentTable

SpecEnroll == InitEnroll /\ [][NextEnroll]_vars

\* the enrollment table of the experiment exists in a warehouse
HasEnrollments(tbls) == enrollments_table_name(experiment) \in DOMAIN tbls

\* C11: ensure_enrollments, when the DAY cadence is ready, issues one write of
\* the enrollment table in WRITE_EMPTY mode. When the warehouse answers with
\* Conflict because the table exists, the call returns normally and the table is
\* as it was; when the warehouse fails the job in any other way, the call raises
\* that failure.
C11_ConflictSwallowed ==
    [][(/\ last'.op = "ensure_enrollments"
        /\ DayReady(experiment, last'.date))
       => /\ last'.effects =
                 {ExecuteCall(enrollments_table_name(experiment), "WRITE_EMPTY")}
          /\ (IsNone(last'.failure) /\ HasEnrollments(tables))
                 => (last'.result = ReturnedNone /\ tables' = tables)
          /\ ~IsNone(last'.failure)
                 => (last'.result = Raised(last'.failure[1]) /\ tables' = tables)]_vars

\* the second call met the table of an earlier date and left it as it was
C11_Witness ==
    /\ last.op = "ensure_enrollments"
    /\ last.n = 2
    /\ IsNone(last.failure)
    /\ DayReady(experiment, last.date)
    /\ last.result = ReturnedNone
    /\ HasEnrollments(tables)
    /\ tables[enrollments_table_name(experiment)].time_limits
           # get_timelimits_if_ready(experiment, DAY, last.date).value

\* C12: over run, ensure_enrollments and deletion in any order and on any
\* dates, the enrollment table is created only by a run or ensure_enrollments
\* call for a date at which the DAY cadence is ready, with the time limits of
\* that date, and once it exists no run and no ensure_enrollments changes or
\* removes it: only the deletion of recreate_enrollments does.
C12_EnrollmentsWrittenOnce ==
    [][/\ (HasEnrollments(tables) /\ last'.op # "delete_enrollment_table")
              => /\ HasEnrollments(tables')
                 /\ tables'[enrollments_table_name(experiment)]
                        = tables[enrollments_table_name(experiment)]
       /\ (~HasEnrollments(tables) /\ HasEnrollments(tables'))
              => /\ last'.op \in {"run", "ensure_enrollments"}
                 /\ DayReady(experiment, last'.date)
                 /\ tables'[enrollments_table_name(experiment)].time_limits
                        = get_timelimits_if_ready(experiment, DAY, last'.date).value
       /\ (/\ ~HasEnrollments(tables)
           /\ last'.op = "ensure_enrollments"
           /\ IsNone(last'.failure)
           /\ DayReady(experiment, last'.date))
              => HasEnrollments(tables')]_vars

\* a run on a later date met the table an earlier call wrote and kept it
C12_Witness ==
    /\ last.op = "run"
    /\ last.n = 2
    /\ ~last.dry_run
    /\ last.result = ReturnedNone
    /\ DayReady(experiment, last.date)
    /\ HasEnrollments(tables)
    /\ tables[enrollments_table_name(experiment)].time_limits
           # get_timelimits_if_ready(experiment, DAY, last.date).value

-----------------------------------------------------------------------------
(* SpecConcurrent: MaxInvocations invocations of ensure_enrollments for one *)
(* experiment run concurrently against one warehouse. An invocation decides *)
(* readiness and builds its query (lines 458-481), then its job runs in the  *)
(* warehouse (lines 483-490); calls[i] is the state of invocation i.         *)

\* concurrent invocations of ensure_enrollments
MaxInvocations == 2

Invocations == 1..MaxInvocations

\* what ensure_enrollments reads of the experiment: neither the flags, nor the
\* end date, nor the status
EnrollingExperiments ==
    {exp \in SluggedExperiments :
        /\ ~exp.skip
        /\ ~exp.is_high_population
        /\ IsNone(exp.end_date)
        /\ exp.status = "Live"}

Invocation(pc, date, time_limits, result, created) ==
    [pc |-> pc, date |-> date, time_limits |-> time_limits, result |-> result,
     created |-> created]

InitConcurrent ==
    /\ experiment \in EnrollingExperiments
    /\ metrics = {}
    /\ calls \in [Invocations -> {Invocation("invoked", d, None, None, FALSE) : d \in RunDates}]
    /\ tables = NoTables
    /\ dask_cluster = [global |-> None, created |-> 0]
    /\ last = NoCall

\* lines 458-481: readiness with the DAY cadence, then the enrollment query
BuildEnrollmentsQuery(i) ==
    /\ calls[i].pc = "invoked"
    /\ LET time_limits == get_timelimits_if_ready(experiment, DAY, calls[i].date)
       IN  calls' = [calls EXCEPT ![i] =
                        IF IsNotReady(time_limits)
                        THEN Invocation("returned", @.date, None, Some(ReturnedNone), FALSE)
                        ELSE Invocation("submitted", @.date, Some(time_limits.value),
                                        None, FALSE)]
    /\ UNCHANGED <<experiment, metrics, tables, dask_cluster, last>>

\* lines 483-490: the job of invocation i ends in the warehouse
ExecuteEnrollmentsQuery(i) ==
    /\ calls[i].pc = "submitted"
    /\ LET out == create_enrollments(experiment, tables, dask_cluster,
                                     calls[i].time_limits[1], None)
       IN  /\ tables' = out.tables
           /\ calls' = [calls EXCEPT ![i] =
                           Invocation("returned", @.date, @.time_limits,
                                      Some(out.result), out.tables # tables)]
    /\ UNCHANGED <<experiment, metrics, dask_cluster, last>>

NextConcurrent ==
    \E i \in Invocations : BuildEnrollmentsQuery(i) \/ ExecuteEnrollmentsQuery(i)

SpecConcurrent == InitConcurrent /\ [][NextConcurrent]_vars

\* the invocations that created the enrollment table
Creators == {i \in Invocations : calls[i].created}

\* the invocations whose job reached the warehouse
Submitters == {i \in Invocations : ~IsNone(calls[i].time_limits)}

\* C13: in every interleaving of concurrent ensure_enrollments invocations on
\* a warehouse without the table, at most one invocation creates the table at
\* any time; once all have returned, every one returned None without an
\* exception, and if any was ready for the DAY cadence exactly one created the
\* table, which holds the whole result of that invocation's query.
C13_ConcurrentEnsureEnrollments ==
    /\ Cardinality(Creators) <= 1
    /\ HasEnrollments(tables) <=> Creators # {}
    /\ (\A i \in Invocations : calls[i].pc = "returned") =>
           /\ \A i \in Invocations : calls[i].result = Some(ReturnedNone)
           /\ Submitters # {} =>
                  /\ Cardinality(Creators) = 1
                  /\ \A i \in Creators :
                         tables[enrollments_table_name(experiment)] =
                             [kind |-> "enrollments",
                              time_limits |-> calls[i].time_limits[1]]

\* two invocations for different dates both reached the warehouse; the first
\* created the table and the second's Conflict was swallowed
C13_Witness ==
    /\ \A i \in Invocations : calls[i].pc = "returned"
    /\ Cardinality(Creators) = 1
    /\ \E i \in Submitters \ Creators :
           /\ calls[i].result = Some(ReturnedNone)
           /\ tables[enrollments_table_name(experiment)].time_limits
                  # calls[i].time_limits[1]

-----------------------------------------------------------------------------
(* The statistics stages on the metrics data of one result table: a        *)
(* DataFrame is its columns and its rows, one row per enrolled client; a   *)
(* StatisticResultCollection is a sequence of rows.                         *)

\* the branch slugs that occur, in the order groupby("branch") sorts them
BranchSlugs == <<"branch1", "branch2", "control">>

\* client ids of the metrics table
ClientIds == {"aaaa", "bbbb"}

\* names of segments, in configuration order
SegmentNames == <<"regular_users_v3">>

Range(seq) == {seq[i] : i \in 1..Len(seq)}

\* a list in the order of `order`, holding the members of S
ListOf(order, S) == SelectSeq(order, LAMBDA x : x \in S)

DataFrame(columns, rows) == [columns |-> columns, rows |-> rows]

\* the metrics tables over the clients: every client enrolled or not, in any
\* branch, inside or outside each segment
MetricsRows ==
    {[client_id |-> c, branch |-> b, segments |-> sg] :
         c \in ClientIds, b \in Range(BranchSlugs), sg \in SUBSET Range(SegmentNames)}

MetricsData ==
    {rows \in SUBSET MetricsRows :
         \A r1, r2 \in rows : r1.client_id = r2.client_id => r1 = r2}

\* StatisticResult(metric, statistic, branch, point, segment)
StatisticResult(metric, statistic, branch, point, segment) ==
    [metric |-> metric, statistic |-> statistic, branch |-> branch, point |-> point,
     segment |-> segment]

\* Count().transform(df, "*", "*", slug).set_segment(segment): one row for
\* every branch of the data, with the number of its clients
Count_transform(segment_data, segment) ==
    LET present == {r.branch : r \in segment_data.rows}
        branches == ListOf(BranchSlugs, present)
    IN  [i \in 1..Len(branches) |->
            StatisticResult("identity", "count", branches[i],
                Cardinality({r \in segment_data.rows : r.branch = branches[i]}),
                segment)]

\* counts without the rows for the branches the data lacks
counts_no_zero_rows(exp, segment_data, segment) ==
    Count_transform(segment_data, segment)

\* Analysis.counts(segment_data, segment)
counts(exp, segment_data, segment) ==
    LET count_rows == Count_transform(segment_data, segment)
        missing == SelectSeq(exp.branches,
                       LAMBDA b : b \notin {c.branch : c \in Range(count_rows)})
    IN  count_rows \o
            [i \in 1..Len(missing) |->
                StatisticResult("identity", "count", missing[i], 0, segment)]

\* Analysis.subset_to_segment(segment, metrics_data)
subset_to_segment(segment, metrics_data) ==
    IF segment # "all"
    THEN IF segment \notin metrics_data.columns
         THEN Raised("ValueError")
         ELSE Returned(DataFrame(metrics_data.columns,
                                 {r \in metrics_data.rows : segment \in r.segments}))
    ELSE Returned(metrics_data)

\* segment_labels, line 439
segment_labels(segments) == <<"all">> \o segments

-----------------------------------------------------------------------------
(* SpecCounts: the subsetting and counts stages on every metrics table and *)
(* every list of configured branches.                                       *)

\* the experiment of an Analysis with its branches and segments
BranchedExperiment(branches, segments) ==
    [normandy_slug |-> Some(Slug), branches |-> branches, segments |-> segments]

InitCounts ==
    /\ experiment \in {BranchedExperiment(ListOf(BranchSlugs, B), SegmentNames) :
                           B \in SUBSET Range(BranchSlugs) \ {{}}}
    /\ metrics = {WEEK}
    /\ calls = <<>>
    /\ tables \in [{table_name(experiment, WEEK, 1)} ->
                      {DataFrame(Range(SegmentNames), rows) : rows \in MetricsData}]
    /\ dask_cluster = [global |-> None, created |-> 0]
    /\ last = NoCall

Counts(segment) ==
    /\ last.op = "none"
    /\ LET metrics_data == tables[table_name(experiment, WEEK, 1)]
           segment_data == subset_to_segment(segment, metrics_data).value
       IN  last' = [op |-> "counts", n |-> 1, segment |-> segment,
                    segment_data |-> segment_data,
                    result |-> counts(experiment, segment_data, segment)]
    /\ UNCHANGED <<experiment, metrics, calls, tables, dask_cluster>>

NextCounts == \E segment \in Range(segment_labels(experiment.segments)) : Counts(segment)

SpecCounts == InitCounts /\ [][NextCounts]_vars

\* the count rows of a branch in a StatisticResultCollection
CountRows(result, branch) ==
    {i \in 1..Len(result) :
        /\ result[i].statistic = "count"
        /\ result[i].branch = branch}

\* C19: for every segment label the counts stage returns, for every
\* configured branch, exactly one count row carrying the label: with point 0
\* when the segment's data has no client of the branch, and with the number of
\* the branch's clients, not 0, when it has.
C19_BranchCompleteness ==
    last.op = "counts" =>
        \A b \in Range(experiment.branches) :
            LET clients == {r \in last.segment_data.rows : r.branch = b}
                rows == CountRows(last.result, b)
            IN  /\ Cardinality(rows) = 1
                /\ \A i \in rows :
                       /\ last.result[i].segment = last.segment
                       /\ last.result[i].point = Cardinality(clients)
                       /\ clients = {} <=> last.result[i].point = 0

\* the segment's data has clients of branch1 only; branch2 got a zero row
C19_Witness ==
    /\ last.op = "counts"
    /\ last.segment = "regular_users_v3"
    /\ experiment.branches = <<"branch1", "branch2">>
    /\ {r.branch : r \in last.segment_data.rows} = {"branch1"}
    /\ {r.branch : r \in tables[table_name(experiment, WEEK, 1)].rows}
           = {"branch1", "branch2"}
    /\ Len(last.result) = 2
    /\ last.result[2] = StatisticResult("identity", "count", "branch2", 0,
                                        "regular_users_v3")

-----------------------------------------------------------------------------
(* SpecGraph: the task graph run has built for a runnable experiment on a    *)
(* date (lines 403-451), computed by the worker pool (lines 453-454): a node *)
(* starts once the nodes its arguments come from have finished, nodes run in *)
(* parallel, and a node that raises ends as erred. calls[node] is the state  *)
(* of a node; last holds the arguments of the run and what the metrics query *)
(* returns.                                                                  *)

\* Summary(metric, statistic) of config.metrics[period]
Summary(metric, statistic) == [metric |-> metric, statistic |-> statistic]

Summaries == <<Summary("active_hours", "bootstrap_mean"), Summary("uri_count", "binomial")>>

\* the segments and the summaries of the configurations
GraphConfigs ==
    {[segments |-> <<>>, summaries |-> Summaries],
     [segments |-> SegmentNames, summaries |-> SubSeq(Summaries, 1, 1)]}

Node(task, period, segment, metric) ==
    [task |-> task, period |-> period, segment |-> segment, metric |-> metric]

\* the nodes the loop of run builds for one ready cadence, lines 424-451
cadence_nodes(period, segments, summaries, dry_run) ==
    {Node("calculate_metrics", period, "", "")}
        \cup IF dry_run THEN {}
             ELSE {Node("table_to_dataframe", period, "", ""),
                   Node("save_statistics", period, "", "")}
                  \cup {Node("subset_to_segment", period, sg, "") :
                            sg \in Range(segment_labels(segments))}
                  \cup {Node("counts", period, sg, "") :
                            sg \in Range(segment_labels(segments))}
                  \cup {Node("calculate_statistics", period, sg, m.metric) :
                            sg \in Range(segment_labels(segments)), m \in Range(summaries)}

\* the task graph of run, lines 407-451
task_graph(exp, mets, current_date, summaries, dry_run) ==
    UNION {cadence_nodes(p, exp.segments, summaries, dry_run) :
               p \in ReadyCadences(exp, mets, current_date)}

\* every statistics and counts node takes the metrics data, not its segment's
dependencies_unsubsetted(node, nodes) ==
    IF node.task = "calculate_metrics" THEN {}
    ELSE IF node.task = "table_to_dataframe"
    THEN {n \in nodes : n.task = "calculate_metrics" /\ n.period = node.period}
    ELSE IF node.task \in {"subset_to_segment", "calculate_statistics", "counts"}
    THEN {n \in nodes : n.task = "table_to_dataframe" /\ n.period = node.period}
    ELSE {n \in nodes : /\ n.task \in {"calculate_metrics", "calculate_statistics", "counts"}
                        /\ n.period = node.period}

\* the nodes whose results are the arguments of a node
dependencies(node, nodes) ==
    IF node.task = "calculate_metrics" THEN {}
    ELSE IF node.task = "table_to_dataframe"                      \* line 435
    THEN {n \in nodes : n.task = "calculate_metrics" /\ n.period = node.period}
    ELSE IF node.task = "subset_to_segment"                       \* line 441
    THEN {n \in nodes : n.task = "table_to_dataframe" /\ n.period = node.period}
    ELSE IF node.task \in {"calculate_statistics", "counts"}      \* lines 443-449
    THEN {n \in nodes : /\ n.task = "subset_to_segment"
                        /\ n.period = node.period
                        /\ n.segment = node.segment}
    ELSE {n \in nodes : /\ n.task \in {"calculate_metrics", "calculate_statistics", "counts"}
                        /\ n.period = node.period}                \* line 451

\* Analysis.calculate_statistics(metric, segment_data, segment): the rows of
\* Summary.run with the segment set
calculate_statistics(summary, segment_data, segment) ==
    <<StatisticResult(summary.metric, summary.statistic, None, None, segment)>>

RECURSIVE Concat(_)
Concat(lists) == IF lists = <<>> THEN <<>> ELSE Head(lists) \o Concat(Tail(lists))

\* segment_results when save_statistics runs, lines 437-449
segment_results(exp, summaries, metrics_data) ==
    LET labels == segment_labels(exp.segments)
    IN  Concat([i \in 1..Len(labels) |->
            LET segment_data == subset_to_segment(labels[i], metrics_data).value
            IN  Concat([j \in 1..Len(summaries) |->
                           calculate_statistics(summaries[j], segment_data, labels[i])])
                    \o counts(exp, segment_data, labels[i])])

\* calculate_metrics when it is not a dry run: the result table, then the view
calculate_metrics(exp, tbls, period, time_limits) ==
    LET writes == cadence_writes(exp, tbls, period, time_limits)
        res_table_name == table_name(exp, period, NumWindows(time_limits))
    IN  Put(Put(tbls, res_table_name, writes[res_table_name]),
            view_name(exp, period, ""), writes[view_name(exp, period, "")])

\* save_statistics without _publish_view
save_statistics_no_view(exp, tbls, period, results, metrics_table) ==
    Put(tbls, "statistics_" \o metrics_table,
        [kind |-> "statistics", of |-> metrics_table, rows |-> results])

\* Analysis.save_statistics(period, segment_results, metrics_table)
save_statistics(exp, tbls, period, results, metrics_table) ==
    Put(Put(tbls, "statistics_" \o metrics_table,
            [kind |-> "statistics", of |-> metrics_table, rows |-> results]),
        view_name(exp, period, "statistics_"),
        [kind |-> "view", over |-> wildcard_expr(exp, period, "statistics_")])

\* the experiments run goes past check_runnable with while they are live
RunnableExperiments ==
    {exp \in EnrollingExperiments : check_runnable(exp, None) = Returned(TRUE)}

\* the rows the metrics query returns: the two clients of the integration
\* test, the first of them inside every segment the table has a column for
GraphRows(columns) ==
    {[client_id |-> "aaaa", branch |-> "branch1", segments |-> columns],
     [client_id |-> "bbbb", branch |-> "branch2", segments |-> {}]}

\* the state when client.compute is called at line 453: the enrollment table
\* is ensured, the worker pool is set up and every node of the graph waits
InitGraph ==
    \E exp \in RunnableExperiments, config \in GraphConfigs, current_date \in RunDates,
       dry_run \in BOOLEAN, columns \in SUBSET Range(SegmentNames) :
        /\ dask_cluster = set_up_dask([global |-> None, created |-> 0])
        /\ experiment = exp @@ [branches |-> <<"branch1", "branch2">>,
                                segments |-> config.segments]
        /\ metrics \in MetricsConfigs
        /\ last = [op |-> "run", n |-> 1, date |-> current_date, dry_run |-> dry_run,
                   summaries |-> config.summaries,
                   metrics_data |-> DataFrame(columns, GraphRows(columns)),
                   result |-> None]
        /\ tables = ensure_enrollments(experiment, NoTables, dask_cluster,
                                       current_date).tables
        /\ calls = [node \in task_graph(experiment, metrics, current_date,
                                        config.summaries, dry_run) |-> "waiting"]

\* a worker takes a node whose arguments are computed
StartNode(node) ==
    /\ calls[node] = "waiting"
    /\ \A n \in dependencies(node, DOMAIN calls) : calls[n] = "finished"
    /\ calls' = [calls EXCEPT ![node] = "running"]
    /\ UNCHANGED <<experiment, metrics, tables, dask_cluster, last>>

\* the node raises: subset_to_segment for a segment the data has no column of
Raises(node) ==
    /\ node.task = "subset_to_segment"
    /\ IsRaise(subset_to_segment(node.segment, last.metrics_data))

\* the warehouse after the body of a node has run
node_writes(node, tbls) ==
    LET time_limits == get_timelimits_if_ready(experiment, node.period, last.date)
        metrics_table == table_name(experiment, node.period, NumWindows(time_limits))
    IN  IF node.task = "calculate_metrics" /\ ~last.dry_run
        THEN calculate_metrics(experiment, tbls, node.period, time_limits)
        ELSE IF node.task = "save_statistics"
        THEN save_statistics(experiment, tbls, node.period,
                             segment_results(experiment, last.summaries,
                                             last.metrics_data),
                             metrics_table)
        ELSE tbls

\* a running node that raises is handed back to the scheduler
FinishNode_retrying(node) ==
    /\ calls[node] = "running"
    /\ IF Raises(node)
       THEN /\ calls' = [calls EXCEPT ![node] = "waiting"]
            /\ tables' = tables
       ELSE /\ calls' = [calls EXCEPT ![node] = "finished"]
            /\ tables' = node_writes(node, tables)
    /\ UNCHANGED <<experiment, metrics, dask_cluster, last>>

\* the body of a running node ends: it returns or raises
FinishNode(node) ==
    /\ calls[node] = "running"
    /\ IF Raises(node)
       THEN /\ calls' = [calls EXCEPT ![node] = "erred"]
            /\ tables' = tables
       ELSE /\ calls' = [calls EXCEPT ![node] = "finished"]
            /\ tables' = node_writes(node, tables)
    /\ UNCHANGED <<experiment, metrics, dask_cluster, last>>

\* client.gather(result_futures), line 454: raises the exception of a node
\* that erred, as its dependents up to the cadence's result future err with
\* it; returns once every result future, and so every node, has finished
Gather ==
    /\ IsNone(last.result)
    /\ IF \E node \in DOMAIN calls : calls[node] = "erred"
       THEN last' = [last EXCEPT !.result = Some(Raised("ValueError"))]
       ELSE /\ \A node \in DOMAIN calls : calls[node] = "finished"
            /\ last' = [last EXCEPT !.result = Some(ReturnedNone)]
    /\ UNCHANGED <<experiment, metrics, calls, tables, dask_cluster>>

NextGraph ==
    \/ \E node \in DOMAIN calls : StartNode(node) \/ FinishNode(node)
    \/ Gather

SpecGraph == InitGraph /\ [][NextGraph]_vars

\* the nodes of a task and a cadence that have started
Started(task, period) ==
    {n \in DOMAIN calls : n.task = task /\ n.period = period /\ calls[n] # "waiting"}

\* every node of a task and a cadence has finished, for the given segments
AllFinished(task, period, segments) ==
    \A n \in DOMAIN calls :
        (n.task = task /\ n.period = period /\ n.segment \in segments)
            => calls[n] = "finished"

\* C17: at every moment of every computation of the task graph, for each
\* cadence: the table load has started only if the metrics query has finished;
\* a subsetting node has started only if the table load has finished; a
\* statistics or counts node has started only if the subsetting node of its own
\* segment has finished; save_statistics has started only if every statistics
\* and every counts node of the cadence has finished.
C17_TaskOrdering ==
    \A p \in Periods :
        LET labels == Range(segment_labels(experiment.segments))
        IN  /\ Started("table_to_dataframe", p) # {}
                => AllFinished("calculate_metrics", p, {""})
            /\ Started("subset_to_segment", p) # {}
                => AllFinished("table_to_dataframe", p, {""})
            /\ \A n \in Started("calculate_statistics", p) \cup Started("counts", p) :
                   AllFinished("subset_to_segment", p, {n.segment})
            /\ Started("save_statistics", p) # {}
                => /\ AllFinished("calculate_statistics", p, labels)
                   /\ AllFinished("counts", p, labels)
                   /\ \A sg \in labels :
                          /\ Node("counts", p, sg, "") \in DOMAIN calls
                          /\ \A m \in Range(last.summaries) :
                                 Node("calculate_statistics", p, sg, m.metric)
                                     \in DOMAIN calls

\* save_statistics of the weekly cadence runs while the daily cadence still
\* waits for its table load
C17_Witness ==
    /\ Node("save_statistics", WEEK, "", "") \in DOMAIN calls
    /\ calls[Node("save_statistics", WEEK, "", "")] = "running"
    /\ Node("table_to_dataframe", DAY, "", "") \in DOMAIN calls
    /\ calls[Node("table_to_dataframe", DAY, "", "")] = "waiting"
    /\ experiment.segments = SegmentNames
    /\ calls[Node("counts", WEEK, "regular_users_v3", "")] = "finished"

\* the statistics and counts nodes, of every cadence and segment
StatisticsNodes ==
    {n \in DOMAIN calls : n.task \in {"calculate_statistics", "counts"}}

\* C18: when the subsetting of a segment that is no column of the metrics
\* table fails, no statistics and no counts node of the run, for any segment,
\* 'all' included, has started.
C18_SubsettingFailsFirst ==
    [][\A node \in DOMAIN calls :
           (/\ node.task = "subset_to_segment"
            /\ calls[node] # "erred"
            /\ calls'[node] = "erred")
               => \A n \in StatisticsNodes : calls[n] = "waiting"]_vars

\* the strings bq_normalize_name, _table_name and _publish_view make of the
\* slug test-experiment, as the integration test reads them back
NormalizedSlug == "test_experiment"

\* C20: when the task graph of a run that is not a dry run has finished
\* without an error, then for every ready cadence c with n analysis windows the
\* warehouse has the result table <slug>_<c>_<n>, the rolling view
\* <slug>_<adjective of c> over <slug>_<c>_*, the statistics table
\* statistics_<slug>_<c>_<n> with a row for every segment label and every
\* configured metric and a count row for every segment label and branch, and
\* the rolling view statistics_<slug>_<adjective of c> over
\* statistics_<slug>_<c>_*.
C20_TablesAfterRun ==
    (/\ ~last.dry_run
     /\ \A node \in DOMAIN calls : calls[node] = "finished") =>
        \A c \in ReadyCadences(experiment, metrics, last.date) :
            LET n == WindowCount(experiment, c, last.date)
                result_table == NormalizedSlug \o "_" \o c \o "_" \o ToString(n)
                view == NormalizedSlug \o "_" \o adjective(c)
                labels == Range(segment_labels(experiment.segments))
            IN  /\ NormalizedSlug = bq_normalize_name(experiment.normandy_slug[1])
                /\ {result_table, view, "statistics_" \o result_table,
                    "statistics_" \o view} \subseteq DOMAIN tables
                /\ tables[result_table].kind = "metrics"
                /\ tables[view] = [kind |-> "view",
                                   over |-> NormalizedSlug \o "_" \o c \o "_*"]
                /\ tables["statistics_" \o view] =
                       [kind |-> "view",
                        over |-> "statistics_" \o NormalizedSlug \o "_" \o c \o "_*"]
                /\ tables["statistics_" \o result_table].kind = "statistics"
                /\ LET rows == tables["statistics_" \o result_table].rows
                   IN  /\ \A sg \in labels, m \in Range(last.summaries) :
                              \E i \in 1..Len(rows) :
                                  /\ rows[i].segment = sg
                                  /\ rows[i].metric = m.metric
                                  /\ rows[i].statistic = m.statistic
                       /\ \A sg \in labels, b \in Range(experiment.branches) :
                              \E i \in 1..Len(rows) :
                                  /\ rows[i].segment = sg
                                  /\ rows[i].statistic = "count"
                                  /\ rows[i].branch = b
                       /\ \A i \in 1..Len(rows) : rows[i].segment \in labels

\* the run of the integration test's shape: the weekly cadence with one
\* window, a configured segment, and the four names the test reads back
C20_Witness ==
    /\ ~last.dry_run
    /\ DOMAIN calls # {}
    /\ \A node \in DOMAIN calls : calls[node] = "finished"
    /\ experiment.segments = SegmentNames
    /\ ReadyCadences(experiment, metrics, last.date) = {WEEK}
    /\ {"test_experiment_week_1", "test_experiment_weekly",
        "statistics_test_experiment_week_1", "statistics_test_experiment_weekly"}
           \subseteq DOMAIN tables
    /\ Len(tables["statistics_test_experiment_week_1"].rows) = 6

-----------------------------------------------------------------------------
(* The window count of a periodic cadence on consecutive days, under        *)
(* SpecReady.                                                               *)

\* the number of analysis windows computable as of a date: none when
\* TimeLimits.for_ts raises
WindowsAsOf(exp, period, date) ==
    IF IsRaise(limits_as_of(exp, period, date)) THEN 0
    ELSE NumWindows(limits_as_of(exp, period, date))

\* C30: for a periodic cadence and a fixed schedule, the number of analysis
\* windows computable as of D is the number computable as of D-1 or one more;
\* so when the calculator returns a TimeLimits at D, its newest window index is
\* the one right after the windows computable as of D-1.
C30_WindowCountStepsByOne ==
    (/\ HasTwoCalls
     /\ Periodic(Cur)
     /\ ~IsNone(experiment.start_date)
     /\ Cur.date = Prev.date + 1) =>
        LET before == WindowsAsOf(experiment, Cur.period, Prev.date)
            now == WindowsAsOf(experiment, Cur.period, Cur.date)
        IN  /\ now \in {before, before + 1}
            /\ IsTimeLimits(Cur.result) => NumWindows(Cur.result) = before + 1
            /\ IsTimeLimits(Prev.result) => NumWindows(Prev.result) = before

\* the daily cadence returned window 2 and, on the next day, window 3
C30_Witness ==
    /\ HasTwoCalls
    /\ Cur.period = DAY
    /\ Cur.date = Prev.date + 1
    /\ IsTimeLimits(Prev.result)
    /\ IsTimeLimits(Cur.result)
    /\ NumWindows(Prev.result) = 2
    /\ NumWindows(Cur.result) = 3

-----------------------------------------------------------------------------
(* The run call around its task graph, under SpecGraph. *)

\* C21: in one run every node is started at most once: a node only goes from
\* waiting to running and from running to finished or erred, and a node that
\* raised is never run again. The run call raises only when a node has erred
\* and returns normally only when no node has erred and every node of every
\* ready cadence has finished.
C21_NoRetryAndFailFast ==
    [][/\ \A node \in DOMAIN calls :
              calls'[node] # calls[node] =>
                  \/ calls[node] = "waiting" /\ calls'[node] = "running"
                  \/ calls[node] = "running" /\ calls'[node] \in {"finished", "erred"}
       /\ DOMAIN calls' = DOMAIN calls
       /\ last'.result = Some(ReturnedNone) =>
              \A node \in DOMAIN calls' : calls'[node] = "finished"
       /\ (~IsNone(last'.result) /\ IsRaise(last'.result[1])) =>
              \E node \in DOMAIN calls' : calls'[node] = "erred"
       /\ (\E node \in DOMAIN calls : calls[node] = "erred") =>
              last'.result # Some(ReturnedNone)]_vars

\* the run raised the ValueError of a subsetting node after other nodes of
\* the graph had finished
C21_Witness ==
    /\ last.result = Some(Raised("ValueError"))
    /\ \E node \in DOMAIN calls : calls[node] = "erred"
    /\ \E node \in DOMAIN calls : node.task = "counts" /\ calls[node] = "finished"
    /\ \A node \in DOMAIN calls : node.task = "save_statistics" => calls[node] = "waiting"

-----------------------------------------------------------------------------
(***************************************************************************)
(* SpecExecute: the executor strategies of src/jetstream/cli.py.  One call *)
(* of SerialExecutorStrategy.execute or ArgoExecutorStrategy.execute with  *)
(* a worklist of (slug, date) items and a configuration_map, which is None *)
(* or the set of the slugs it has an override file for.  experiment holds  *)
(* the slugs of the collection experiment_getter returns, calls the items  *)
(* processed so far (serial) or the workflows submitted (Argo), last the   *)
(* locals of the call.                                                     *)
(***************************************************************************)

\* the longest worklist
MaxWorklist == 2

WorklistSlugs == {"test_slug", "other_slug"}
WorklistDates == {ScenarioDate, ScenarioDate + 1}
WorklistItems == [slug : WorklistSlugs, date : WorklistDates]
Worklists == UNION {[1..n -> WorklistItems] : n \in 0..MaxWorklist}
ConfigurationMaps == {None} \cup {Some(m) : m \in SUBSET WorklistSlugs}

\* the subclasses of errors.ValidationException: the exceptions of check_runnable
ValidationExceptions ==
    {"NoSlugException", "ExplicitSkipException", "HighPopulationException",
     "NoEnrollmentPeriodException", "NoStartDateException", "EndedException"}

\* what analysis.run(date) and export_metadata do for one item
RunOutcomes ==
    {ReturnedNone, Raised("NoStartDateException"), Raised("EndedException"),
     Raised("ValueError")}

\* `configuration_map and slug in configuration_map` (line 157)
has_override(slug, configuration_map) ==
    /\ ~IsNone(configuration_map)
    /\ configuration_map[1] # {}
    /\ slug \in configuration_map[1]

\* the try block of one item (lines 155-168). bound tells whether the local
\* external_configs has been assigned by an earlier item; it is assigned
\* only on the branch without an override (161) and read by spec.resolve (165)
try_item(item, configuration_map, experiments, bound, run_outcome) ==
    IF item.slug \notin experiments
    THEN [slug |-> item.slug, date |-> item.date, merged |-> "nothing",
          ran |-> FALSE, outcome |-> Raised("IndexError"), bound |-> bound]
    ELSE IF has_override(item.slug, configuration_map)
    THEN IF bound
         THEN [slug |-> item.slug, date |-> item.date, merged |-> "override",
               ran |-> TRUE, outcome |-> run_outcome, bound |-> TRUE]
         ELSE [slug |-> item.slug, date |-> item.date, merged |-> "override",
               ran |-> FALSE, outcome |-> Raised("UnboundLocalError"),
               bound |-> FALSE]
    ELSE [slug |-> item.slug, date |-> item.date, merged |-> "external",
          ran |-> TRUE, outcome |-> run_outcome, bound |-> TRUE]

\* every exception marks the batch failed
except_clauses_all_fatal(failed, outcome) == failed \/ IsRaise(outcome)

\* the except clauses (169-176): failed after the item
except_clauses(failed, outcome) ==
    failed \/ (IsRaise(outcome) /\ outcome.exc \notin ValidationExceptions)

\* the map is rejected only when it has entries
argo_execute_truthy(worklist, configuration_map) ==
    IF ~IsNone(configuration_map) /\ configuration_map[1] # {}
    THEN [result |-> Raised("Exception"), submitted |-> <<>>]
    ELSE [result |-> ReturnedNone, submitted |-> <<worklist>>]

RECURSIVE experiments_config(_)
\* experiments_config (110-116): the dates of each slug as strings, the slugs
\* in the order of their first item
experiments_config(worklist) ==
    IF worklist = <<>> THEN <<>>
    ELSE LET before == experiments_config(SubSeq(worklist, 1, Len(worklist) - 1))
             item == worklist[Len(worklist)]
             day == Strftime(item.date)
         IN  IF \E k \in 1..Len(before) : before[k].slug = item.slug
             THEN [k \in 1..Len(before) |->
                      IF before[k].slug = item.slug
                      THEN [before[k] EXCEPT !.dates = Append(@, day)]
                      ELSE before[k]]
             ELSE Append(before, [slug |-> item.slug, dates |-> <<day>>])

\* ArgoExecutorStrategy.execute (102-132): the result and the workflows submitted
argo_execute(worklist, configuration_map) ==
    IF ~IsNone(configuration_map)
    THEN [result |-> Raised("Exception"), submitted |-> <<>>]
    ELSE [result |-> ReturnedNone, submitted |-> <<experiments_config(worklist)>>]

InitExecute ==
    /\ experiment \in {WorklistSlugs, {"test_slug"}}
    /\ metrics = {}
    /\ calls = <<>>
    /\ tables = NoTables
    /\ dask_cluster = [global |-> None, created |-> 0]
    /\ last \in [op : {"execute", "argo"}, worklist : Worklists,
                 configuration_map : ConfigurationMaps, failed : {FALSE},
                 external_configs : {FALSE}, result : {None}]

\* an item that raises a fatal exception ends the loop
ExecuteItem_propagating ==
    /\ last.op = "execute"
    /\ IsNone(last.result)
    /\ Len(calls) < Len(last.worklist)
    /\ \E run_outcome \in RunOutcomes :
           LET done == try_item(last.worklist[Len(calls) + 1], last.configuration_map,
                                experiment, last.external_configs, run_outcome)
               failed == except_clauses(last.failed, done.outcome)
           IN  /\ calls' = Append(calls, done)
               /\ last' = [last EXCEPT !.failed = failed,
                                       !.external_configs = done.bound,
                                       !.result = IF failed THEN Some(FALSE) ELSE @]
    /\ UNCHANGED <<experiment, metrics, tables, dask_cluster>>

\* one iteration of the loop of SerialExecutorStrategy.execute (153-176)
ExecuteItem ==
    /\ last.op = "execute"
    /\ IsNone(last.result)
    /\ Len(calls) < Len(last.worklist)
    /\ \E run_outcome \in RunOutcomes :
           LET done == try_item(last.worklist[Len(calls) + 1], last.configuration_map,
                                experiment, last.external_configs, run_outcome)
           IN  /\ calls' = Append(calls, done)
               /\ last' = [last EXCEPT !.failed = except_clauses(@, done.outcome),
                                       !.external_configs = done.bound]
    /\ UNCHANGED <<experiment, metrics, tables, dask_cluster>>

\* return not failed (177), after the last item
ExecuteReturn ==
    /\ last.op = "execute"
    /\ IsNone(last.result)
    /\ Len(calls) = Len(last.worklist)
    /\ last' = [last EXCEPT !.result = Some(~last.failed)]
    /\ UNCHANGED <<experiment, metrics, calls, tables, dask_cluster>>

\* one call of ArgoExecutorStrategy.execute
ArgoExecute ==
    /\ last.op = "argo"
    /\ IsNone(last.result)
    /\ LET done == argo_execute(last.worklist, last.configuration_map)
       IN  /\ calls' = done.submitted
           /\ last' = [last EXCEPT !.result = Some(done.result)]
    /\ UNCHANGED <<experiment, metrics, tables, dask_cluster>>

NextExecute == ExecuteItem \/ ExecuteReturn \/ ArgoExecute

SpecExecute == InitExecute /\ [][NextExecute]_vars

\* C22: the items processed are the items of the worklist in worklist order,
\* whatever the earlier items raised, and execute returns only after the
\* last item was processed.
C22_EveryItemAttempted ==
    last.op = "execute" =>
        /\ Len(calls) <= Len(last.worklist)
        /\ \A k \in 1..Len(calls) :
               /\ calls[k].slug = last.worklist[k].slug
               /\ calls[k].date = last.worklist[k].date
        /\ ~IsNone(last.result) => Len(calls) = Len(last.worklist)

\* the first item raised a fatal exception and the second item was still run
C22_Witness ==
    /\ last.op = "execute"
    /\ last.result = Some(FALSE)
    /\ Len(calls) = 2
    /\ calls[1].outcome = Raised("ValueError")
    /\ calls[2].ran /\ calls[2].outcome = ReturnedNone

\* C23: execute returns False exactly when some item raised an exception that
\* is not a ValidationException; items that only raise the exceptions of the
\* preconditions leave the result True.
C23_FalseIffFatal ==
    (last.op = "execute" /\ ~IsNone(last.result)) =>
        /\ last.result[1] \in BOOLEAN
        /\ last.result[1] = FALSE <=>
               \E k \in 1..Len(calls) :
                   /\ IsRaise(calls[k].outcome)
                   /\ calls[k].outcome.exc \notin
                          {"NoSlugException", "ExplicitSkipException",
                           "HighPopulationException", "NoEnrollmentPeriodException",
                           "NoStartDateException", "EndedException"}

\* a worklist of one item that succeeds and one that fails a precondition
\* returns True
C23_Witness ==
    /\ last.op = "execute"
    /\ last.result = Some(TRUE)
    /\ Len(calls) = 2
    /\ calls[1].outcome = Raised("EndedException")
    /\ calls[2].outcome = ReturnedNone

\* C24: ArgoExecutorStrategy.execute with a configuration map, even an empty
\* one, raises and submits no workflow.
C24_ArgoRejectsOverrides ==
    (last.op = "argo" /\ ~IsNone(last.configuration_map)) =>
        /\ calls = <<>>
        /\ ~IsNone(last.result) => last.result[1] = Raised("Exception")

\* the call with an empty map raised, and so did a call with overrides
C24_Witness ==
    /\ last.op = "argo"
    /\ last.configuration_map = Some({})
    /\ last.worklist # <<>>
    /\ last.result = Some(Raised("Exception"))
    /\ calls = <<>>

\* C29: an item of a known experiment whose slug has an entry in
\* configuration_map has the override merged and analysis.run(date) invoked,
\* at every position of the worklist.
C29_OverrideItemsRun ==
    last.op = "execute" =>
        \A k \in 1..Len(calls) :
            (/\ calls[k].slug \in experiment
             /\ ~IsNone(last.configuration_map)
             /\ calls[k].slug \in last.configuration_map[1]) =>
                /\ calls[k].merged = "override"
                /\ calls[k].ran

-----------------------------------------------------------------------------
(***************************************************************************)
(* SpecNaming: Analysis._table_name derived for one experiment, for any    *)
(* cadence and window index, any number of times; calls keeps the latest   *)
(* two derivations.                                                        *)
(***************************************************************************)

MixedCaseSlug == <<"M", "y", " ", "E", "x", "p", "!">>
DottedSlug == <<"f", "e", "n", "i", "x", ".", "v", "2">>
NamedSlugs == {Slug, MixedCaseSlug, DottedSlug}

InitNaming ==
    /\ experiment \in {Experiment(Some(slug), FALSE, FALSE, ScenarioEnrollment,
                                  Some(StartDay), None, "Live") : slug \in NamedSlugs}
    /\ metrics = Periods
    /\ InitCommon

TableName(period, index) ==
    /\ LET derived == [period |-> period, index |-> index,
                       name |-> table_name(experiment, period, index)]
       IN  calls' = IF Len(calls) < 2 THEN Append(calls, derived)
                    ELSE <<calls[2], derived>>
    /\ UNCHANGED <<experiment, metrics, tables, dask_cluster, last>>

NextNaming == \E period \in Periods, index \in WindowIndexes : TableName(period, index)

SpecNaming == InitNaming /\ [][NextNaming]_vars

-----------------------------------------------------------------------------
(* The worker pool across the calls of one process, under SpecRun. *)

\* C27: at most one LocalCluster is ever created. A call creates it exactly
\* when it is a run, dry or not, that passes check_runnable and
\* ensure_enrollments while the global is still None; every run that gets
\* that far afterwards has the same cluster, and no other call touches it.
C27_OneWorkerPool ==
    [][LET passes ==
               /\ last'.op = "run"
               /\ ~IsRaise(check_runnable(experiment, Some(last'.date)))
               /\ ~IsRaise(ensure_enrollments(experiment, tables, dask_cluster,
                                              last'.date).result)
       IN  /\ dask_cluster'.created <= 1
           /\ dask_cluster' # dask_cluster <=> (passes /\ IsNone(dask_cluster.global))
           /\ passes => dask_cluster'.global = Some(1)
           /\ dask_cluster'.created = dask_cluster.created + 1 <=>
                  dask_cluster' # dask_cluster]_vars

\* two runs wrote the daily tables of two different windows with one cluster
C27_Witness ==
    /\ last.op = "run" /\ last.n = 2
    /\ last.result = ReturnedNone
    /\ dask_cluster = [global |-> Some(1), created |-> 1]
    /\ \E i, j \in WindowIndexes :
           /\ i # j
           /\ {table_name(experiment, DAY, i), table_name(experiment, DAY, j)}
                  \subseteq DOMAIN tables

-----------------------------------------------------------------------------
(***************************************************************************)
(* SpecRerun: up to MaxOps calls of run, dry or not, for one experiment    *)
(* with a slug; calls records the date, the result and the warehouse       *)
(* after each call.                                                        *)
(***************************************************************************)

InitRerun ==
    /\ experiment \in SluggedExperiments
    /\ metrics \in MetricsConfigs
    /\ InitCommon

RunRecorded(current_date, dry_run) ==
    /\ Len(calls) < MaxOps
    /\ LET out == run(experiment, metrics, tables, dask_cluster, current_date, dry_run)
       IN  /\ tables' = out.tables
           /\ dask_cluster' = out.cluster
           /\ last' = [op |-> "run", n |-> Len(calls) + 1, date |-> current_date,
                       dry_run |-> dry_run, result |-> out.result,
                       effects |-> out.effects, metrics_tables |-> out.metrics_tables]
           /\ calls' = Append(calls, [date |-> current_date, dry_run |-> dry_run,
                                      result |-> out.result, tables |-> out.tables])
    /\ UNCHANGED <<experiment, metrics>>

NextRerun == \E d \in RunDates, dry_run \in BOOLEAN : RunRecorded(d, dry_run)

SpecRerun == InitRerun /\ [][NextRerun]_vars

\* C26: a run that follows a successful run for the same date leaves the
\* warehouse as the first run left it: the same tables and views with the
\* same contents, every result and statistics table replaced, none added.
C26_RunIdempotent ==
    \A k \in 2..Len(calls) :
        (/\ ~calls[k - 1].dry_run /\ ~calls[k].dry_run
         /\ calls[k].date = calls[k - 1].date
         /\ calls[k - 1].result = ReturnedNone) =>
            /\ calls[k].result = ReturnedNone
            /\ calls[k].tables = calls[k - 1].tables
            /\ DOMAIN calls[k].tables = DOMAIN calls[k - 1].tables

\* run was called twice for a date at which the weekly cadence is ready and
\* the weekly result table, its statistics table and both views exist
C26_Witness ==
    /\ Len(calls) = 2
    /\ ~calls[1].dry_run /\ ~calls[2].dry_run
    /\ calls[1].date = calls[2].date
    /\ calls[1].result = ReturnedNone /\ calls[2].result = ReturnedNone
    /\ {enrollments_table_name(experiment), table_name(experiment, WEEK, 1),
        "statistics_" \o table_name(experiment, WEEK, 1),
        view_name(experiment, WEEK, ""), view_name(experiment, WEEK, "statistics_")}
           \subseteq DOMAIN tables

-----------------------------------------------------------------------------
(***************************************************************************)
(* SpecLog: setup_logger (src/jetstream/cli.py) and the records logged     *)
(* after it.  last holds the root logger setup_logger leaves behind and    *)
(* the buffer of its BigQueryLogHandler, calls the records logged so far,  *)
(* tables the log table.                                                   *)
(***************************************************************************)

\* the number of records logged
MaxRecords == 3

\* logging.DEBUG, INFO, WARNING, ERROR
LevelNo == [DEBUG |-> 10, INFO |-> 20, WARNING |-> 30, ERROR |-> 40]

\* a call of logger.debug / info / warning / error / exception: message is the
\* position of the call, extra the value of extra["experiment"] if given,
\* exc_info whether the record carries an exception (logger.exception)
LogRecord(message, levelname, extra, exc_info) ==
    [message |-> message, levelname |-> levelname, experiment |-> extra,
     exc_info |-> exc_info]

LogCalls ==
    {[levelname |-> l, experiment |-> e, exc_info |-> x] :
         l \in DOMAIN LevelNo, e \in {None, Some("test_experiment")}, x \in BOOLEAN}

\* setup_logger with the BigQuery handler at the level of the root logger
setup_logger_handler_at_info(configured, log_to_bigquery, capacity) ==
    [op |-> "setup_logger",
     level |-> IF configured THEN "WARNING" ELSE "INFO",
     bigquery_handler |-> IF log_to_bigquery
                          THEN Some([level |-> "INFO", capacity |-> capacity])
                          ELSE None,
     buffer |-> <<>>]

\* setup_logger(..., log_to_bigquery, client, capacity): the root logger after
\* the call. logging.basicConfig sets the level only when the root logger has
\* no handler yet (configured = FALSE); else the level stays at its default
setup_logger(configured, log_to_bigquery, capacity) ==
    [op |-> "setup_logger",
     level |-> IF configured THEN "WARNING" ELSE "INFO",
     bigquery_handler |-> IF log_to_bigquery
                          THEN Some([level |-> "WARNING", capacity |-> capacity])
                          ELSE None,
     buffer |-> <<>>]

\* the row BigQueryLogHandler writes for a record
log_row(record) ==
    [message |-> record.message, log_level |-> record.levelname,
     experiment |-> record.experiment, exception |-> record.exc_info]

\* BigQueryLogHandler, a BufferingHandler: emit buffers the record and flushes
\* the buffer into the log table once it holds `capacity` records
bigquery_emit(root, logs, record) ==
    LET buffer == Append(root.buffer, log_row(record))
    IN  IF Len(buffer) >= root.bigquery_handler[1].capacity
        THEN [root |-> [root EXCEPT !.buffer = <<>>], logs |-> logs \o buffer]
        ELSE [root |-> [root EXCEPT !.buffer = buffer], logs |-> logs]

\* Logger.log of the logging module: the record is dropped below the level of
\* the root logger, and handed to each handler whose level it reaches
logger_log(root, logs, record) ==
    IF /\ LevelNo[record.levelname] >= LevelNo[root.level]
       /\ ~IsNone(root.bigquery_handler)
       /\ LevelNo[record.levelname] >= LevelNo[root.bigquery_handler[1].level]
    THEN bigquery_emit(root, logs, record)
    ELSE [root |-> root, logs |-> logs]

InitLog ==
    /\ experiment = None
    /\ metrics = {}
    /\ calls = <<>>
    /\ tables = [logs |-> <<>>]
    /\ dask_cluster = [global |-> None, created |-> 0]
    /\ last \in {setup_logger(configured, log_to_bigquery, capacity) :
                     configured \in BOOLEAN, log_to_bigquery \in BOOLEAN,
                     capacity \in {1, 2}}

Log(call) ==
    /\ Len(calls) < MaxRecords
    /\ LET record == LogRecord(Len(calls) + 1, call.levelname, call.experiment,
                               call.exc_info)
           logged == logger_log(last, tables.logs, record)
       IN  /\ calls' = Append(calls, record)
           /\ last' = logged.root
           /\ tables' = [logs |-> logged.logs]
    /\ UNCHANGED <<experiment, metrics, dask_cluster>>

NextLog == \E call \in LogCalls : Log(call)

SpecLog == InitLog /\ [][NextLog]_vars

\* C28: with the BigQuery handler installed, the records the handler has
\* taken (written to the log table or still in its buffer) are exactly the
\* records of level WARNING or higher, in the order they were logged; no
\* DEBUG or INFO record is ever written, and every row carries the level and
\* the experiment of the extra data of its record.
C28_WarningsReachBigQuery ==
    ~IsNone(last.bigquery_handler) =>
        LET taken == tables.logs \o last.buffer
        IN  /\ \A k \in 1..Len(calls) :
                   (\E j \in 1..Len(taken) : taken[j].message = k) <=>
                       calls[k].levelname \in {"WARNING", "ERROR"}
            /\ \A j \in 1..Len(taken) :
                   /\ taken[j].log_level = calls[taken[j].message].levelname
                   /\ taken[j].experiment = calls[taken[j].message].experiment
                   /\ taken[j].exception = calls[taken[j].message].exc_info
                   /\ \A i \in 1..(j - 1) : taken[i].message < taken[j].message

\* the integration test: info, warning, then error with the experiment in
\* extra, capacity 1: two rows, the second with the experiment
C28_Witness ==
    /\ ~IsNone(last.bigquery_handler)
    /\ last.bigquery_handler[1].capacity = 1
    /\ Len(calls) = 3
    /\ calls[1].levelname = "INFO"
    /\ calls[2].levelname = "WARNING"
    /\ calls[3].levelname = "ERROR" /\ calls[3].exc_info
    /\ Len(tables.logs) = 2
    /\ tables.logs[2].experiment = Some("test_experiment")
    /\ tables.logs[2].log_level = "ERROR"

-----------------------------------------------------------------------------
(* The enrollment table under the metrics queries of run, under SpecRun. *)

\* the cadences whose metrics query a run executed
QueriedCadences(effects) ==
    {p \in Periods : \E c \in effects, i \in WindowIndexes :
         c = ExecuteCall(table_name(experiment, p, i), "WRITE_TRUNCATE")}

\* C32: a cadence that is ready at a date has the DAY cadence ready at that
\* date; a run that is not a dry run and executed the metrics query of a
\* cadence had ensure_enrollments ready and attempting the creation of the
\* enrollment table before, the table exists when the query reads it, and no
\* run fails for a missing enrollment table.
C32_EnrollmentsBeforeMetrics ==
    /\ last.op = "none" =>          \* the schedule never changes: once per experiment
           \A date \in Dates, p \in Periods :
               IsTimeLimits(get_timelimits_if_ready(experiment, p, date)) =>
                   DayReady(experiment, date)
    /\ (last.op = "run" /\ ~last.dry_run) =>
           /\ last.result # Raised("NotFound")
           /\ QueriedCadences(last.effects) # {} =>
                  /\ DayReady(experiment, last.date)
                  /\ ExecuteCall(enrollments_table_name(experiment), "WRITE_EMPTY")
                         \in last.effects
                  /\ enrollments_table_name(experiment) \in DOMAIN tables

\* a run executed the overall metrics query without a daily cadence configured
C32_Witness ==
    /\ last.op = "run" /\ ~last.dry_run
    /\ last.result = ReturnedNone
    /\ DAY \notin metrics
    /\ OVERALL \in QueriedCadences(last.effects)
    /\ enrollments_table_name(experiment) \in DOMAIN tables

-----------------------------------------------------------------------------
(***************************************************************************)
(* SpecDaily: run is called for the start date of the experiment and then  *)
(* for every following date, as long as it returns; calls records the date *)
(* of each run and the result tables its metrics queries wrote.            *)
(***************************************************************************)

\* the number of days after the start date for which run is called
MaxRunDays == 16

InitDaily ==
    /\ experiment \in SluggedExperiments
    /\ metrics \in MetricsConfigs
    /\ InitCommon

\* the result tables the metrics queries among a set of warehouse calls wrote
ResultTablesWritten(effects) ==
    {c.table : c \in {e \in effects : e.call = "execute" /\ e.mode = "WRITE_TRUNCATE"}}

RunNextDay ==
    /\ ~IsNone(experiment.start_date)
    /\ Len(calls) <= MaxRunDays
    /\ \A j \in 1..Len(calls) : calls[j].result = ReturnedNone
    /\ LET current_date == experiment.start_date[1] + Len(calls)
           out == run(experiment, metrics, tables, dask_cluster, current_date, FALSE)
       IN  /\ tables' = out.tables
           /\ dask_cluster' = out.cluster
           /\ last' = [op |-> "run", n |-> Len(calls) + 1, date |-> current_date,
                       dry_run |-> FALSE, result |-> out.result,
                       effects |-> out.effects, metrics_tables |-> out.metrics_tables]
           /\ calls' = Append(calls, [date |-> current_date, result |-> out.result,
                                      written |-> ResultTablesWritten(out.effects)])
    /\ UNCHANGED <<experiment, metrics>>

NextDaily == RunNextDay

SpecDaily == InitDaily /\ [][NextDaily]_vars

\* C31: after a successful run on every date from the start date up to D,
\* each window index 1..n of a configured periodic cadence with n windows
\* computable as of D had its result table written by exactly one run, the
\* run on the first date at which the window count reached the index, and no
\* table of a later index was written.
C31_EveryWindowOnce ==
    (/\ calls # <<>>
     /\ \A j \in 1..Len(calls) : calls[j].result = ReturnedNone) =>
        \A p \in metrics \cap {DAY, WEEK} :
            LET n == WindowsAsOf(experiment, p, calls[Len(calls)].date)
                writers(k) == {j \in 1..Len(calls) :
                                  table_name(experiment, p, k) \in calls[j].written}
            IN  /\ \A k \in 1..n :
                       /\ Cardinality(writers(k)) = 1
                       /\ \A j \in writers(k) :
                              /\ WindowsAsOf(experiment, p, calls[j].date) = k
                              /\ WindowsAsOf(experiment, p, calls[j].date - 1) = k - 1
                /\ \A k \in (n + 1)..(MaxRunDays + 1) : writers(k) = {}

\* run returned on every date until the second weekly window closed: the
\* tables of both weekly windows and of every daily window were written
C31_Witness ==
    /\ calls # <<>>
    /\ \A j \in 1..Len(calls) : calls[j].result = ReturnedNone
    /\ metrics = {DAY, WEEK, OVERALL}
    /\ WindowsAsOf(experiment, WEEK, calls[Len(calls)].date) = 2
    /\ WindowsAsOf(experiment, DAY, calls[Len(calls)].date) > 8
    /\ table_name(experiment, WEEK, 2) \in calls[Len(calls)].written
    /\ \E j \in 1..Len(calls) : table_name(experiment, WEEK, 1) \in calls[j].written

-----------------------------------------------------------------------------
(***************************************************************************)
(* SpecPublish: the warehouse calls of calculate_metrics and               *)
(* save_statistics in one run that is not a dry run, one call at a time    *)
(* and any of them failing.  calls[p] is the statement the chain of the    *)
(* ready cadence p has reached, the chains of different cadences           *)
(* interleave; last.log lists the warehouse calls in the order they were   *)
(* made, each with the failure it ended with, if any.                      *)
(***************************************************************************)

\* every statement continues with the next, whatever the call ended with
after_call_swallowing(pc, failure) ==
    CASE pc = "metrics_query" -> "publish_view"
      [] pc = "publish_view" -> "load_statistics"
      [] pc = "load_statistics" -> "publish_statistics_view"
      [] OTHER -> "finished"

\* the statement after a warehouse call: an exception of the call leaves the
\* node, and the nodes that depend on it never run (lines 199-200, 375-380)
after_call(pc, failure) ==
    IF ~IsNone(failure) THEN "erred"
    ELSE CASE pc = "metrics_query" -> "publish_view"
           [] pc = "publish_view" -> "load_statistics"
           [] pc = "load_statistics" -> "publish_statistics_view"
           [] OTHER -> "finished"

Failures == {None} \cup {Some(f) : f \in WarehouseFailures}

InitPublish ==
    \E exp \in RunnableExperiments,
       current_date \in StartDay..(StartDay + MaxRunDays) :
        /\ experiment = exp
        /\ metrics \in MetricsConfigs
        /\ dask_cluster = set_up_dask([global |-> None, created |-> 0])
        /\ tables = ensure_enrollments(experiment, NoTables, dask_cluster,
                                       current_date).tables
        /\ calls = [p \in ReadyCadences(experiment, metrics, current_date) |->
                       "metrics_query"]
        /\ last = [op |-> "run", n |-> 1, date |-> current_date, dry_run |-> FALSE,
                   log |-> <<>>]

\* one warehouse call of the chain of cadence p: it writes `name` unless it fails
WarehouseCall(p, pc, call, name, failure) ==
    /\ p \in DOMAIN calls
    /\ calls[p] = pc
    /\ calls' = [calls EXCEPT ![p] = after_call(pc, failure)]
    /\ last' = [last EXCEPT !.log = Append(@, [call |-> call, failure |-> failure])]
    /\ tables' = IF ~IsNone(failure) THEN tables
                 ELSE LET time_limits == get_timelimits_if_ready(experiment, p, last.date)
                      IN  Put(tables, name,
                              cadence_writes(experiment, tables, p, time_limits)[name])
    /\ UNCHANGED <<experiment, metrics, dask_cluster>>

\* the result table of the newest window of a ready cadence in this run
ResultTable(p) ==
    table_name(experiment, p, WindowCount(experiment, p, last.date))

\* calculate_metrics, line 199: self.bigquery.execute(metrics_sql, res_table_name)
ExecuteMetricsQuery(p, failure) ==
    WarehouseCall(p, "metrics_query", ExecuteCall(ResultTable(p), "WRITE_TRUNCATE"),
                  ResultTable(p), failure)

\* calculate_metrics, line 200: self._publish_view(period)
PublishView(p, failure) ==
    WarehouseCall(p, "publish_view",
                  ExecuteCall(view_name(experiment, p, ""), "CREATE OR REPLACE VIEW"),
                  view_name(experiment, p, ""), failure)

\* save_statistics, lines 375-378: load_table_from_json, waiting for the job
LoadStatistics(p, failure) ==
    WarehouseCall(p, "load_statistics",
                  LoadCall("statistics_" \o ResultTable(p), "WRITE_TRUNCATE"),
                  "statistics_" \o ResultTable(p), failure)

\* save_statistics, line 380: self._publish_view(period, table_prefix="statistics")
PublishStatisticsView(p, failure) ==
    WarehouseCall(p, "publish_statistics_view",
                  ExecuteCall(view_name(experiment, p, "statistics_"),
                              "CREATE OR REPLACE VIEW"),
                  view_name(experiment, p, "statistics_"), failure)

NextPublish ==
    \E p \in Periods, failure \in Failures :
        \/ ExecuteMetricsQuery(p, failure)
        \/ PublishView(p, failure)
        \/ LoadStatistics(p, failure)
        \/ PublishStatisticsView(p, failure)

SpecPublish == InitPublish /\ [][NextPublish]_vars

\* the positions of the log at which a call for a table or view was made
CallsFor(name) == {j \in 1..Len(last.log) : last.log[j].call.table = name}

\* C33: every publication of a rolling view in a run comes after the
\* successful write of the table of the current window it covers: the
\* result view after the metrics query wrote the result table, the
\* statistics view after the statistics load ended; a cadence whose table
\* write failed has no view published in that run.
C33_ViewAfterTable ==
    \A p \in DOMAIN calls :
        /\ \A j \in CallsFor(view_name(experiment, p, "")) :
               \E i \in CallsFor(ResultTable(p)) :
                   i < j /\ IsNone(last.log[i].failure)
        /\ \A j \in CallsFor(view_name(experiment, p, "statistics_")) :
               \E i \in CallsFor("statistics_" \o ResultTable(p)) :
                   i < j /\ IsNone(last.log[i].failure)
        /\ (\E i \in CallsFor(ResultTable(p)) : ~IsNone(last.log[i].failure)) =>
               /\ CallsFor(view_name(experiment, p, "")) = {}
               /\ CallsFor(view_name(experiment, p, "statistics_")) = {}
               /\ view_name(experiment, p, "") \notin DOMAIN tables
        /\ (\E i \in CallsFor("statistics_" \o ResultTable(p)) :
                ~IsNone(last.log[i].failure)) =>
               /\ CallsFor(view_name(experiment, p, "statistics_")) = {}
               /\ view_name(experiment, p, "statistics_") \notin DOMAIN tables

\* the weekly statistics load failed after the weekly result view was
\* published, while the daily chain published both of its views
C33_Witness ==
    /\ DOMAIN calls = {DAY, WEEK}
    /\ calls[DAY] = "finished"
    /\ calls[WEEK] = "erred"
    /\ view_name(experiment, WEEK, "") \in DOMAIN tables
    /\ ResultTable(WEEK) \in DOMAIN tables
    /\ view_name(experiment, WEEK, "statistics_") \notin DOMAIN tables
    /\ view_name(experiment, DAY, "statistics_") \in DOMAIN tables
    /\ \E i \in CallsFor("statistics_" \o ResultTable(WEEK)) :
           last.log[i].failure = Some("Forbidden")

-----------------------------------------------------------------------------
(***************************************************************************)
(* SpecBatch: AnalysisExecutor (src/jetstream/cli.py).  One call of        *)
(* execute with the serial strategy, or of ensure_enrollments, over the    *)
(* experiments of the experiment source.  experiment holds the source (a   *)
(* sequence of experiments), tables the warehouse, last the attributes of  *)
(* the executor and the locals of the call (last.before is the warehouse   *)
(* when the call began), calls the events of the call in their order:      *)
(* warnings, deletions of enrollment tables, worklist items run by the     *)
(* strategy, enrollment tables ensured.                                    *)
(***************************************************************************)

\* the sentinel All of date and experiment_slugs: date is All or <<day>>,
\* experiment_slugs is All or a sequence of at least one slug
All == <<>>

SlugA == <<"e", "x", "p", "-", "a">>
SlugB == <<"e", "x", "p", "-", "b">>
UnknownSlug == <<"n", "o", "n", "e">>

\* the experiment sources: a first experiment with any flags, end date and
\* status, and a second one that is live, or complete and ended
ExperimentSources ==
    {<<Experiment(Some(SlugA), sk, hp, 1, Some(StartDay), e, st), second>> :
         sk \in BOOLEAN, hp \in BOOLEAN, e \in EndDates, st \in Statuses,
         second \in {Experiment(Some(SlugB), FALSE, FALSE, 1, Some(StartDay), None, "Live"),
                     Experiment(Some(SlugB), FALSE, FALSE, 1, Some(StartDay),
                                Some(StartDay + MaxLifetime), "Complete")}}

\* the values of experiment_slugs
SlugLists == {<<SlugA>>, <<SlugA, SlugB>>, <<UnknownSlug, SlugB>>}

\* the date the executor is created with, and the value of _today()
BatchDate == StartDay + MaxLifetime
Today == StartDay + MaxLifetime + 1

\* the content of an enrollment table written before the call
Stale == [kind |-> "enrollments", time_limits |-> [call |-> "earlier"]]

\* the warehouse with the enrollment table of every experiment of the source
StaleTables(source) ==
    [n \in {enrollments_table_name(source[k]) : k \in 1..Len(source)} |-> Stale]

\* ExperimentCollection.with_slug(slug).experiments
with_slug(source, slug) == SelectSeq(source, LAMBDA e : e.normandy_slug = Some(slug))

\* lines 263-271: the first experiment of each slug the source knows, in the
\* order of the slugs, and the slugs it does not know
explicit_slugs(source, experiment_slugs) ==
    LET found == SelectSeq([k \in 1..Len(experiment_slugs) |->
                                with_slug(source, experiment_slugs[k])],
                           LAMBDA es : es # <<>>)
    IN  [experiments |-> [k \in 1..Len(found) |-> found[k][1]],
         warnings |-> SelectSeq(experiment_slugs,
                                LAMBDA slug : with_slug(source, slug) = <<>>)]

\* a selection that also takes All for all dates
experiments_to_analyse_all_time(source, experiment_slugs, date, filtered) ==
    IF experiment_slugs = All
    THEN Returned([experiments |-> SelectSeq(filtered, LAMBDA e : ~IsNone(e.normandy_slug)),
                   warnings |-> <<>>])
    ELSE Returned(explicit_slugs(source, experiment_slugs))

\* AnalysisExecutor._experiments_to_analyse (241-272). filtered is what
\* experiments.end_on_or_after(date).of_type(...) gives, a part of the source
experiments_to_analyse(source, experiment_slugs, date, filtered) ==
    IF experiment_slugs = All
    THEN IF date = All THEN Raised("ValueError")
         ELSE Returned([experiments |->
                            SelectSeq(filtered, LAMBDA e : ~IsNone(e.normandy_slug)),
                        warnings |-> <<>>])
    ELSE Returned(explicit_slugs(source, experiment_slugs))

\* util.inclusive_date_range(start_date, end_date)
inclusive_date_range(start_date, end_date) ==
    [k \in 1..(end_date - start_date + 1) |-> start_date + k - 1]

\* the dates of an experiment without end date run through today
run_dates_open_ended(exp, date, today) ==
    IF date = All
    THEN Returned(inclusive_date_range(
                      exp.start_date[1],
                      IF IsNone(exp.end_date) THEN today ELSE Min({exp.end_date[1] + 1, today})))
    ELSE Returned(<<date[1]>>)

\* AnalysisExecutor.execute, lines 213-223: run_dates of one experiment.
\* `experiment.end_date + timedelta(days=1) or today` adds before it tests:
\* with end_date None the sum raises TypeError
run_dates(exp, date, today) ==
    IF date = All
    THEN IF IsNone(exp.end_date) THEN Raised("TypeError")
         ELSE Returned(inclusive_date_range(exp.start_date[1],
                                            Min({exp.end_date[1] + 1, today})))
    ELSE Returned(<<date[1]>>)

\* AnalysisExecutor.ensure_enrollments, lines 301-308: end_date
ensure_end_date(exp, date, today) ==
    IF date = All
    THEN IF IsNone(exp.end_date) THEN today ELSE Min({exp.end_date[1], today})
    ELSE date[1]

InitBatch ==
    /\ experiment \in ExperimentSources
    /\ metrics = Periods
    /\ calls = <<>>
    /\ tables \in {NoTables, StaleTables(experiment)}
    /\ dask_cluster = [global |-> None, created |-> 0]
    /\ last \in {[op |-> op, date |-> date, experiment_slugs |-> slugs,
                  recreate_enrollments |-> recreate, filtered |-> filtered,
                  pc |-> "select", run_experiments |-> <<>>, i |-> 1,
                  worklist |-> <<>>, failed |-> FALSE, result |-> None,
                  before |-> tables] :
                     op \in {"execute", "ensure_enrollments"},
                     date \in {All, Some(BatchDate)},
                     slugs \in {All} \cup SlugLists,
                     recreate \in BOOLEAN,
                     filtered \in {experiment, SubSeq(experiment, 2, 2)}}

\* run_experiments = self._experiments_to_analyse(experiment_getter)
SelectExperiments ==
    /\ last.pc = "select"
    /\ LET selected == experiments_to_analyse(experiment, last.experiment_slugs,
                                              last.date, last.filtered)
       IN  IF IsRaise(selected)
           THEN /\ last' = [last EXCEPT !.pc = "done", !.result = Some(selected)]
                /\ calls' = calls
           ELSE /\ last' = [last EXCEPT
                                !.pc = IF last.op = "ensure_enrollments" THEN "ensure"
                                       ELSE IF selected.value.experiments = <<>>
                                       THEN "strategy" ELSE "build",
                                !.run_experiments = selected.value.experiments]
                /\ calls' = [k \in 1..Len(selected.value.warnings) |->
                                [event |-> "warning", slug |-> selected.value.warnings[k]]]
    /\ UNCHANGED <<experiment, metrics, tables, dask_cluster>>

\* one iteration of the loop of execute (212-229): the worklist items of an
\* experiment, then the deletion of its enrollment table
BuildWorklist ==
    /\ last.pc = "build"
    /\ LET exp == last.run_experiments[last.i]
           dates == run_dates(exp, last.date, Today)
       IN  IF IsRaise(dates)
           THEN /\ last' = [last EXCEPT !.pc = "done", !.result = Some(dates)]
                /\ UNCHANGED <<calls, tables>>
           ELSE /\ last' = [last EXCEPT
                                !.worklist = @ \o [k \in 1..Len(dates.value) |->
                                                      [slug |-> exp.normandy_slug[1],
                                                       date |-> dates.value[k]]],
                                !.i = IF last.i = Len(last.run_experiments) THEN 1 ELSE @ + 1,
                                !.pc = IF last.i = Len(last.run_experiments)
                                       THEN "strategy" ELSE @]
                /\ IF last.recreate_enrollments
                   THEN /\ tables' = delete_enrollment_table(exp, tables)
                        /\ calls' = Append(calls, [event |-> "delete",
                                                   slug |-> exp.normandy_slug[1]])
                   ELSE UNCHANGED <<calls, tables>>
    /\ UNCHANGED <<experiment, metrics, dask_cluster>>

\* one item of the worklist in SerialExecutorStrategy.execute (153-176), with
\* no configuration_map
StrategyItem ==
    /\ last.pc = "strategy"
    /\ last.i <= Len(last.worklist)
    /\ LET item == last.worklist[last.i]
           exp == with_slug(experiment, item.slug)[1]
           out == run(exp, metrics, tables, dask_cluster, item.date, FALSE)
       IN  /\ tables' = out.tables
           /\ dask_cluster' = out.cluster
           /\ calls' = Append(calls, [event |-> "item", slug |-> item.slug,
                                      date |-> item.date, result |-> out.result,
                                      effects |-> out.effects])
           /\ last' = [last EXCEPT !.i = @ + 1,
                                   !.failed = except_clauses(@, out.result)]
    /\ UNCHANGED <<experiment, metrics>>

\* return strategy.execute(worklist, ...): return not failed
StrategyReturn ==
    /\ last.pc = "strategy"
    /\ last.i > Len(last.worklist)
    /\ last' = [last EXCEPT !.pc = "done", !.result = Some(Returned(~last.failed))]
    /\ UNCHANGED <<experiment, metrics, calls, tables, dask_cluster>>

\* the loop going on to the next experiment after an exception
EnsureExperiment_continuing(failure) ==
    /\ last.pc = "ensure"
    /\ last.i <= Len(last.run_experiments)
    /\ LET exp == last.run_experiments[last.i]
           end_date == ensure_end_date(exp, last.date, Today)
           out == ensure_enrollments_under(exp, tables, dask_cluster, end_date, failure)
       IN  /\ tables' = out.tables
           /\ calls' = Append(calls, [event |-> "ensure", slug |-> exp.normandy_slug[1],
                                      date |-> end_date, result |-> out.result,
                                      effects |-> out.effects,
                                      logged |-> IF IsRaise(out.result)
                                                 THEN exp.normandy_slug ELSE None])
           /\ last' = [last EXCEPT !.i = @ + 1]
    /\ UNCHANGED <<experiment, metrics, dask_cluster>>

\* one iteration of the loop of AnalysisExecutor.ensure_enrollments (285-313)
\* while the warehouse suffers from `failure`: an exception is logged with
\* extra={"experiment": slug} and raised again
EnsureExperiment(failure) ==
    /\ last.pc = "ensure"
    /\ last.i <= Len(last.run_experiments)
    /\ LET exp == last.run_experiments[last.i]
           end_date == ensure_end_date(exp, last.date, Today)
           out == ensure_enrollments_under(exp, tables, dask_cluster, end_date, failure)
       IN  /\ tables' = out.tables
           /\ calls' = Append(calls, [event |-> "ensure", slug |-> exp.normandy_slug[1],
                                      date |-> end_date, result |-> out.result,
                                      effects |-> out.effects,
                                      logged |-> IF IsRaise(out.result)
                                                 THEN exp.normandy_slug ELSE None])
           /\ last' = IF IsRaise(out.result)
                      THEN [last EXCEPT !.pc = "done", !.result = Some(out.result)]
                      ELSE [last EXCEPT !.i = @ + 1]
    /\ UNCHANGED <<experiment, metrics, dask_cluster>>

\* AnalysisExecutor.ensure_enrollments returns after the last experiment
EnsureReturn ==
    /\ last.pc = "ensure"
    /\ last.i > Len(last.run_experiments)
    /\ last' = [last EXCEPT !.pc = "done", !.result = Some(ReturnedNone)]
    /\ UNCHANGED <<experiment, metrics, calls, tables, dask_cluster>>

NextBatch ==
    \/ SelectExperiments
    \/ BuildWorklist
    \/ StrategyItem
    \/ StrategyReturn
    \/ \E failure \in Failures : EnsureExperiment(failure)
    \/ EnsureReturn

SpecBatch == InitBatch /\ [][NextBatch]_vars

\* the slugs of the items of a worklist
ItemSlugs(worklist) == {worklist[k].slug : k \in 1..Len(worklist)}

\* the events of one kind in the order they happened
Events(kind) == SelectSeq(calls, LAMBDA c : c.event = kind)

\* C40: with experiment_slugs and date both All, execute raises ValueError
\* and nothing else happens: no enrollment table is deleted, no item reaches
\* the strategy.  With explicit slugs, once the worklist is built every slug
\* the source knows has items on it and every slug it does not know has a
\* warning and no item.
C40_RefusesAllForAllTime ==
    /\ (last.op = "execute" /\ last.experiment_slugs = All /\ last.date = All
            /\ last.pc # "select") =>
           /\ last.pc = "done"
           /\ last.result = Some(Raised("ValueError"))
           /\ calls = <<>>
           /\ last.worklist = <<>>
           /\ tables \in {NoTables, StaleTables(experiment)}
    /\ (last.op = "execute" /\ last.experiment_slugs # All /\ last.pc = "strategy") =>
           \A k \in 1..Len(last.experiment_slugs) :
               LET slug == last.experiment_slugs[k]
                   warned == \E w \in 1..Len(calls) :
                                 calls[w] = [event |-> "warning", slug |-> slug]
               IN  IF with_slug(experiment, slug) = <<>>
                   THEN warned /\ slug \notin ItemSlugs(last.worklist)
                   ELSE ~warned /\ slug \in ItemSlugs(last.worklist)

C40_Witness ==
    /\ last.op = "execute" /\ last.experiment_slugs = All /\ last.date = All
    /\ last.recreate_enrollments
    /\ tables = StaleTables(experiment)
    /\ last.result = Some(Raised("ValueError"))

\* the items the dates of an experiment put on the worklist
ItemsOf(exp, dates) ==
    [k \in 1..Len(dates) |-> [slug |-> exp.normandy_slug[1], date |-> dates[k]]]

\* C37: execute puts on the worklist, experiment by experiment, the dates
\* from the start date through min(end_date + 1 day, today) in ascending
\* order, through today for an experiment without end date, and the one
\* concrete date when date is not All; it never fails while doing so.
C37_WorklistDates ==
    (last.op = "execute" /\ last.pc # "select"
         /\ last.result # Some(Raised("ValueError"))) =>
        /\ last.result # Some(Raised("TypeError"))
        /\ last.pc \in {"strategy", "done"} =>
               last.worklist =
                   Concat([k \in 1..Len(last.run_experiments) |->
                              ItemsOf(last.run_experiments[k],
                                      run_dates_open_ended(last.run_experiments[k],
                                                           last.date, Today).value)])

\* the experiments execute or ensure_enrollments selected
Selected == {last.run_experiments[k] : k \in 1..Len(last.run_experiments)}

\* an item of the strategy or an experiment of ensure_enrollments that issued
\* the query creating the enrollment table of exp
AttemptedCreation(c, exp) ==
    /\ c.event \in {"item", "ensure"}
    /\ c.slug = exp.normandy_slug[1]
    /\ ExecuteCall(enrollments_table_name(exp), "WRITE_EMPTY") \in c.effects

\* C35: with recreate_enrollments set, execute deletes the enrollment table
\* of every selected experiment before the strategy executes the first item,
\* and a later item that issues the creating query leaves a table written by
\* that query, not the earlier one; with the flag unset execute deletes no
\* table and the earlier enrollment tables stay as they were.
C35_RecreateDeletesFirst ==
    last.op = "execute" =>
        /\ \A k, j \in 1..Len(calls) :
               (calls[k].event = "delete" /\ calls[j].event = "item") => k < j
        /\ ~last.recreate_enrollments =>
               /\ Events("delete") = <<>>
               /\ \A n \in DOMAIN last.before :
                      n \in DOMAIN tables /\ tables[n] = last.before[n]
        /\ (last.recreate_enrollments /\ last.pc = "strategy") =>
               \A exp \in Selected :
                   /\ \E k \in 1..Len(calls) :
                          calls[k] = [event |-> "delete", slug |-> exp.normandy_slug[1]]
                   /\ last.i = 1 => enrollments_table_name(exp) \notin DOMAIN tables
                   /\ (\E k \in 1..Len(calls) : AttemptedCreation(calls[k], exp)) =>
                          /\ enrollments_table_name(exp) \in DOMAIN tables
                          /\ tables[enrollments_table_name(exp)] # Stale

C35_Witness ==
    /\ last.op = "execute" /\ last.recreate_enrollments /\ last.pc = "strategy"
    /\ last.before = StaleTables(experiment)
    /\ Len(last.run_experiments) = 2
    /\ \A exp \in Selected :
           /\ \E k \in 1..Len(calls) : AttemptedCreation(calls[k], exp)
           /\ \E k \in 1..Len(calls) :
                  calls[k] = [event |-> "delete", slug |-> exp.normandy_slug[1]]
           /\ tables[enrollments_table_name(exp)] # Stale
    /\ \E n \in DOMAIN tables : tables[n].kind # "enrollments"

\* the experiment of the source an event is about
ExperimentOf(c) == with_slug(experiment, c.slug)[1]

\* C34: neither an item of execute nor an experiment of
\* AnalysisExecutor.ensure_enrollments issues the query that writes the
\* enrollment table of an experiment with a skip directive or flagged
\* high-population.
C34_NoEnrollmentsForSkipped ==
    \A k \in 1..Len(calls) :
        (/\ calls[k].event \in {"item", "ensure"}
         /\ (ExperimentOf(calls[k]).skip \/ ExperimentOf(calls[k]).is_high_population)) =>
            ~AttemptedCreation(calls[k], ExperimentOf(calls[k]))

\* what C34 states about execute alone
C34_ExecuteSkips == last.op = "execute" => C34_NoEnrollmentsForSkipped

\* C36: when AnalysisExecutor.ensure_enrollments has returned with
\* recreate_enrollments set, the enrollment table of every selected
\* experiment for which the creating query was issued holds what that query
\* wrote, not what an earlier call left.
C36_EnsureRecreates ==
    (/\ last.op = "ensure_enrollments"
     /\ last.recreate_enrollments
     /\ last.result = Some(ReturnedNone)) =>
        \A exp \in Selected :
            (\E k \in 1..Len(calls) : AttemptedCreation(calls[k], exp)) =>
                /\ enrollments_table_name(exp) \in DOMAIN tables
                /\ tables[enrollments_table_name(exp)] # Stale

\* C39: AnalysisExecutor.ensure_enrollments takes the selected experiments
\* in their order; an exception is logged with the slug of the experiment
\* and ends the call with that exception, so it is the last experiment the
\* call attempted; the enrollment tables created before it remain.
C39_EnsureStopsAtFirstFailure ==
    last.op = "ensure_enrollments" =>
        LET ensured == Events("ensure")
        IN  /\ Len(ensured) <= Len(last.run_experiments)
            /\ \A k \in 1..Len(ensured) :
                   /\ ensured[k].slug = last.run_experiments[k].normandy_slug[1]
                   /\ IF IsRaise(ensured[k].result)
                      THEN /\ k = Len(ensured)
                           /\ ensured[k].logged = Some(ensured[k].slug)
                           /\ last.pc = "done"
                           /\ last.result = Some(ensured[k].result)
                      ELSE AttemptedCreation(ensured[k], last.run_experiments[k]) =>
                               enrollments_table_name(last.run_experiments[k])
                                   \in DOMAIN tables

C39_Witness ==
    /\ last.op = "ensure_enrollments" /\ last.pc = "done"
    /\ last.before = NoTables
    /\ Len(last.run_experiments) = 2
    /\ Len(calls) = 2
    /\ calls[1].result = ReturnedNone
    /\ calls[2].result = Raised("Forbidden")
    /\ last.result = Some(Raised("Forbidden"))
    /\ DOMAIN tables = {enrollments_table_name(last.run_experiments[1])}

\* a rerun whose strategy has returned: execute with date All
RerunDone ==
    /\ last.op = "execute" /\ last.date = All /\ last.pc = "done"
    /\ last.result \in {Some(Returned(TRUE)), Some(Returned(FALSE))}

\* the selected experiments that are Complete and ended before today
EndedExperiments ==
    {exp \in Selected : /\ exp.status = "Complete"
                        /\ ~IsNone(exp.end_date)
                        /\ exp.end_date[1] < Today}

\* the dates of the worklist of an experiment
DatesOf(exp) ==
    {last.worklist[k].date : k \in {j \in 1..Len(last.worklist) :
                                       last.worklist[j].slug = exp.normandy_slug[1]}}

\* the worklist dates of an experiment on which the overall cadence is ready
OverallReadyItems(exp) ==
    {d \in DatesOf(exp) : IsTimeLimits(get_timelimits_if_ready(exp, OVERALL, d))}

\* the result of the run of an experiment for a date of the worklist is r
ItemResult(exp, d, r) ==
    \E k \in 1..Len(calls) :
        /\ calls[k].event = "item"
        /\ calls[k].slug = exp.normandy_slug[1]
        /\ calls[k].date = d
        /\ calls[k].result = r

\* the run of an experiment for a date of the worklist wrote the overall table
WroteOverall(exp, d) ==
    \E k \in 1..Len(calls) :
        /\ calls[k].event = "item"
        /\ calls[k].slug = exp.normandy_slug[1]
        /\ calls[k].date = d
        /\ ExecuteCall(table_name(exp, OVERALL, 1), "WRITE_TRUNCATE") \in calls[k].effects

\* the length of the overall window: analysis_length_dates, lines 108-112
OverallLength(exp) == (exp.end_date[1] - exp.start_date[1]) - dates_enrollment(exp) + 1

=============================================================================
